---- MODULE Spec2Model ----
(***************************************************************************)
(* Hierarchical datastore keys, their wire/text encodings, and the        *)
(* immutable query descriptors of the appengine/datastore package.        *)
(*                                                                         *)
(* A Go string is a sequence of one-character strings; "" is << >>.       *)
(* A *Key is the chain of its nodes, leaf first: k[1] is the key itself,  *)
(* Tail(k) is k.parent, and the nil key is << >>.                         *)
(* An optional protocol-buffer field is << >> (unset) or << v >> (set).   *)
(***************************************************************************)
EXTENDS Integers, Sequences, FiniteSets, TLC

(***************************************************************************)
(* Bytes and characters                                                   *)
(***************************************************************************)
\* The character of every byte value 0..255 (index = byte + 1).
ByteChars ==
  << "x00", "x01", "x02", "x03", "x04", "x05", "x06", "x07",
     "x08", "\t", "\n", "x0B", "x0C", "x0D", "x0E", "x0F",
     "x10", "x11", "x12", "x13", "x14", "x15", "x16", "x17",
     "x18", "x19", "x1A", "x1B", "x1C", "x1D", "x1E", "x1F",
     " ", "!", "\"", "#", "$", "%", "&", "'",
     "(", ")", "*", "+", ",", "-", ".", "/",
     "0", "1", "2", "3", "4", "5", "6", "7",
     "8", "9", ":", ";", "<", "=", ">", "?",
     "@", "A", "B", "C", "D", "E", "F", "G",
     "H", "I", "J", "K", "L", "M", "N", "O",
     "P", "Q", "R", "S", "T", "U", "V", "W",
     "X", "Y", "Z", "[", "\\", "]", "^", "_",
     "x60", "a", "b", "c", "d", "e", "f", "g",
     "h", "i", "j", "k", "l", "m", "n", "o",
     "p", "q", "r", "s", "t", "u", "v", "w",
     "x", "y", "z", "{", "|", "}", "~", "x7F",
     "x80", "x81", "x82", "x83", "x84", "x85", "x86", "x87",
     "x88", "x89", "x8A", "x8B", "x8C", "x8D", "x8E", "x8F",
     "x90", "x91", "x92", "x93", "x94", "x95", "x96", "x97",
     "x98", "x99", "x9A", "x9B", "x9C", "x9D", "x9E", "x9F",
     "xA0", "xA1", "xA2", "xA3", "xA4", "xA5", "xA6", "xA7",
     "xA8", "xA9", "xAA", "xAB", "xAC", "xAD", "xAE", "xAF",
     "xB0", "xB1", "xB2", "xB3", "xB4", "xB5", "xB6", "xB7",
     "xB8", "xB9", "xBA", "xBB", "xBC", "xBD", "xBE", "xBF",
     "xC0", "xC1", "xC2", "xC3", "xC4", "xC5", "xC6", "xC7",
     "xC8", "xC9", "xCA", "xCB", "xCC", "xCD", "xCE", "xCF",
     "xD0", "xD1", "xD2", "xD3", "xD4", "xD5", "xD6", "xD7",
     "xD8", "xD9", "xDA", "xDB", "xDC", "xDD", "xDE", "xDF",
     "xE0", "xE1", "xE2", "xE3", "xE4", "xE5", "xE6", "xE7",
     "xE8", "xE9", "xEA", "xEB", "xEC", "xED", "xEE", "xEF",
     "xF0", "xF1", "xF2", "xF3", "xF4", "xF5", "xF6", "xF7",
     "xF8", "xF9", "xFA", "xFB", "xFC", "xFD", "xFE", "xFF" >>

Chr(n) == ByteChars[n + 1]

OrdTable == [c \in {ByteChars[i] : i \in 1..256} |->
               (CHOOSE i \in 1..256 : ByteChars[i] = c) - 1]

Ord(c) == OrdTable[c]

RECURSIVE StringBytes(_)
StringBytes(s) == IF s = << >> THEN << >> ELSE <<Ord(Head(s))>> \o StringBytes(Tail(s))

RECURSIVE BytesString(_)
BytesString(b) == IF b = << >> THEN << >> ELSE <<Chr(Head(b))>> \o BytesString(Tail(b))

\* strings.Repeat(s, n)
RECURSIVE Repeat(_, _)
Repeat(s, n) == IF n <= 0 THEN << >> ELSE s \o Repeat(s, n - 1)

\* strings.TrimRight(s, cutset): drop the trailing run of characters of cutset.
RECURSIVE TrimRight(_, _)
TrimRight(s, cutset) ==
  IF s # << >> /\ s[Len(s)] \in cutset
  THEN TrimRight(SubSeq(s, 1, Len(s) - 1), cutset)
  ELSE s

\* strings.TrimLeft(s, cutset)
RECURSIVE TrimLeft(_, _)
TrimLeft(s, cutset) ==
  IF s # << >> /\ Head(s) \in cutset THEN TrimLeft(Tail(s), cutset) ELSE s

\* unicode.IsSpace restricted to the one-byte characters of ByteChars.
WhiteSpace == {" ", "\t", "\n", "x0B", "x0C", "x0D", "x85", "xA0"}

\* strings.TrimSpace(s)
TrimSpace(s) == TrimLeft(TrimRight(s, WhiteSpace), WhiteSpace)

\* strings.HasPrefix(s, prefix)
HasPrefix(s, prefix) ==
  Len(s) >= Len(prefix) /\ SubSeq(s, 1, Len(prefix)) = prefix

(***************************************************************************)
(* Optional protocol-buffer fields                                        *)
(***************************************************************************)
Unset == << >>

Some(v) == <<v>>

\* proto.GetString
GetString(p) == IF p = Unset THEN << >> ELSE p[1]

\* proto.GetInt64
GetInt64(p) == IF p = Unset THEN 0 ELSE p[1]

(***************************************************************************)
(* Key                                                                     *)
(***************************************************************************)
NilKey == << >>

NoError == "nil"

ErrInvalidKey == "datastore: invalid key"

\* &Key{kind, stringID, intID, parent, appID}: NewKey leaves namespace "".
NewKey(appID, kind, stringID, intID, parent) ==
  << [kind |-> kind, stringID |-> stringID, intID |-> intID,
      appID |-> appID, namespace |-> << >>] >> \o parent

\* for p := parent; p != nil && namespace == ""; p = p.parent { namespace = p.namespace }
RECURSIVE inheritNamespace(_, _)
inheritNamespace(p, namespace) ==
  IF p # NilKey /\ namespace = << >>
  THEN inheritNamespace(Tail(p), p[1].namespace)
  ELSE namespace

NewNamespaceKey(appID, kind, stringID, intID, parent, namespace) ==
  LET k == NewKey(appID, kind, stringID, intID, parent)
  IN  <<[k[1] EXCEPT !.namespace = inheritNamespace(parent, namespace)]>> \o Tail(k)

\* k.stringID == "" && k.intID == 0
Incomplete(k) == k[1].stringID = << >> /\ k[1].intID = 0

parentCheck_NoIncomplete(k) ==
  Tail(k) # NilKey =>
    /\ Tail(k)[1].appID = k[1].appID
    /\ Tail(k)[1].namespace = k[1].namespace

\* The body of `if k.parent != nil { ... }` in valid: TRUE when no return false is taken.
parentCheck(k) ==
  Tail(k) # NilKey =>
    /\ ~Incomplete(Tail(k))
    /\ Tail(k)[1].appID = k[1].appID
    /\ Tail(k)[1].namespace = k[1].namespace

\* for ; k != nil; k = k.parent { ... } of valid
RECURSIVE validLoop(_)
validLoop(k) ==
  IF k = NilKey THEN TRUE
  ELSE IF k[1].kind = << >> \/ k[1].appID = << >> THEN FALSE
  ELSE IF k[1].stringID # << >> /\ k[1].intID # 0 THEN FALSE
  ELSE IF ~parentCheck(k) THEN FALSE
  ELSE validLoop(Tail(k))

valid(k) == IF k = NilKey THEN FALSE ELSE validLoop(k)

nodeDiffers_NoAppID(a, b) ==
  \/ a.kind # b.kind
  \/ a.stringID # b.stringID
  \/ a.intID # b.intID
  \/ a.namespace # b.namespace

\* The condition of the `return false` inside Equal's loop.
nodeDiffers(a, b) ==
  \/ a.kind # b.kind
  \/ a.stringID # b.stringID
  \/ a.intID # b.intID
  \/ a.appID # b.appID
  \/ a.namespace # b.namespace

\* Equal: walk both chains while neither has ended; then k == o (both nil).
RECURSIVE Equal(_, _)
Equal(k, o) ==
  IF k # NilKey /\ o # NilKey
  THEN IF nodeDiffers(k[1], o[1]) THEN FALSE ELSE Equal(Tail(k), Tail(o))
  ELSE k = NilKey /\ o = NilKey

(***************************************************************************)
(* Key.String                                                              *)
(***************************************************************************)
Digits == <<"0", "1", "2", "3", "4", "5", "6", "7", "8", "9">>

\* strconv.FormatInt(n, 10) / strconv.Itoa64(n)
RECURSIVE FormatInt(_)
FormatInt(n) ==
  IF n < 0 THEN <<"-">> \o FormatInt(0 - n)
  ELSE IF n < 10 THEN <<Digits[n + 1]>>
  ELSE FormatInt(n \div 10) \o <<Digits[(n % 10) + 1]>>

\* What marshal writes for the key's own node after its ancestors.
marshalNode(n) ==
  <<"/">> \o n.kind \o <<",">>
    \o (IF n.stringID # << >> THEN n.stringID ELSE FormatInt(n.intID))

\* Key.marshal: the ancestors first; only the root writes its namespace.
RECURSIVE marshal(_)
marshal(k) ==
  (IF Len(k) > 1 THEN marshal(Tail(k)) ELSE k[1].namespace) \o marshalNode(k[1])

\* Key.String
String(k) == IF k = NilKey THEN << >> ELSE marshal(k)

\* Key.marshal of dev/exp/appengine/datastore: the ancestors first; every
\* level writes its namespace.
RECURSIVE dev_marshal(_)
dev_marshal(k) ==
  (IF Len(k) > 1 THEN dev_marshal(Tail(k)) ELSE << >>)
    \o k[1].namespace \o marshalNode(k[1])

\* Key.String of dev/exp/appengine/datastore
dev_String(k) == IF k = NilKey THEN << >> ELSE dev_marshal(k)

(***************************************************************************)
(* Wire reference: keyToProto / protoToKey                                *)
(***************************************************************************)
pathElement_IdWithName(n) ==
  [Type |-> Some(n.kind),
   Name |-> IF n.stringID # << >> THEN Some(n.stringID) ELSE Unset,
   Id   |-> IF n.intID # 0 THEN Some(n.intID) ELSE Unset]

\* &pb.Path_Element{Type: &i.kind}; then Name or Id, never both.
pathElement(n) ==
  [Type |-> Some(n.kind),
   Name |-> IF n.stringID # << >> THEN Some(n.stringID) ELSE Unset,
   Id   |-> IF n.stringID = << >> /\ n.intID # 0 THEN Some(n.intID) ELSE Unset]

\* The element slice e filled leaf-to-root from the back (leaf first, as the
\* slice would be with the index counting up).
pathOf_LeafFirst(k) == [j \in 1..Len(k) |-> pathElement(k[j])]

\* The element slice e of keyToProto: e[n-1] is the leaf, e[0] the root.
pathOf(k) == [j \in 1..Len(k) |-> pathElement(k[Len(k) + 1 - j])]

\* keyToProto: App and NameSpace are read from the leaf only. k must not be nil.
keyToProto(k) ==
  [App       |-> Some(k[1].appID),
   NameSpace |-> IF k[1].namespace # << >> THEN Some(k[1].namespace) ELSE Unset,
   Path      |-> [Element |-> pathOf(k)]]

RECURSIVE protoToKeyLoop_ValidateLast(_, _, _, _)
protoToKeyLoop_ValidateLast(es, appID, namespace, k) ==
  IF es = << >>
  THEN IF k = NilKey \/ valid(<<k[1]>>) THEN [key |-> k, err |-> NoError]
       ELSE [key |-> NilKey, err |-> ErrInvalidKey]
  ELSE protoToKeyLoop_ValidateLast(Tail(es), appID, namespace,
         << [kind      |-> GetString(es[1].Type),
             stringID  |-> GetString(es[1].Name),
             intID     |-> GetInt64(es[1].Id),
             appID     |-> appID,
             namespace |-> namespace] >> \o k)

\* for _, e := range r.Path.Element { k = &Key{...parent: k...}; if !k.valid() ... }
RECURSIVE protoToKeyLoop(_, _, _, _)
protoToKeyLoop(es, appID, namespace, k) ==
  IF es = << >> THEN [key |-> k, err |-> NoError]
  ELSE LET k2 == << [kind      |-> GetString(es[1].Type),
                     stringID  |-> GetString(es[1].Name),
                     intID     |-> GetInt64(es[1].Id),
                     appID     |-> appID,
                     namespace |-> namespace] >> \o k
       IN  IF ~valid(k2) THEN [key |-> NilKey, err |-> ErrInvalidKey]
           ELSE protoToKeyLoop(Tail(es), appID, namespace, k2)

protoToKey(r) ==
  protoToKeyLoop(r.Path.Element, GetString(r.App), GetString(r.NameSpace), NilKey)

\* referenceValueToKey: protoToKey for a PropertyValue_ReferenceValue, whose
\* elements are in r.Pathelement.
referenceValueToKey(r) ==
  protoToKeyLoop(r.Pathelement, GetString(r.App), GetString(r.NameSpace), NilKey)

multiValid_Compact(keys) ==
  IF \A i \in 1..Len(keys) : valid(keys[i]) THEN [isNil |-> TRUE, errs |-> << >>]
  ELSE [isNil |-> FALSE,
        errs |-> [j \in 1..Cardinality({i \in 1..Len(keys) : ~valid(keys[i])}) |->
                    ErrInvalidKey]]

\* multiValid: nil, or an ErrMulti of len(key) slots in which the slots of the
\* invalid keys hold ErrInvalidKey and the others stay nil.
multiValid(keys) ==
  IF ~\E i \in 1..Len(keys) : ~valid(keys[i]) THEN [isNil |-> TRUE, errs |-> << >>]
  ELSE [isNil |-> FALSE,
        errs |-> [i \in 1..Len(keys) |->
                    IF ~valid(keys[i]) THEN ErrInvalidKey ELSE NoError]]

(***************************************************************************)
(* proto.Marshal / proto.Unmarshal of pb.Reference (protocol-buffer wire  *)
(* format: app = 13, path = 14, name_space = 20; Path.Element is group 1  *)
(* with type = 2, id = 3, name = 4)                                       *)
(***************************************************************************)
RECURSIVE Varint(_)
Varint(n) == IF n < 128 THEN <<n>> ELSE <<(n % 128) + 128>> \o Varint(n \div 128)

LenDelimited(tag, bytes) == Varint(tag) \o Varint(Len(bytes)) \o bytes

MarshalElement(e) ==
  <<11>>
  \o LenDelimited(18, StringBytes(GetString(e.Type)))
  \o (IF e.Id # Unset THEN <<24>> \o Varint(e.Id[1]) ELSE << >>)
  \o (IF e.Name # Unset THEN LenDelimited(34, StringBytes(e.Name[1])) ELSE << >>)
  \o <<12>>

RECURSIVE MarshalPath(_)
MarshalPath(es) ==
  IF es = << >> THEN << >> ELSE MarshalElement(es[1]) \o MarshalPath(Tail(es))

Marshal(ref) ==
  LenDelimited(106, StringBytes(GetString(ref.App)))
  \o LenDelimited(114, MarshalPath(ref.Path.Element))
  \o (IF ref.NameSpace # Unset
      THEN LenDelimited(162, StringBytes(ref.NameSpace[1])) ELSE << >>)

RECURSIVE ReadVarint(_, _)
ReadVarint(b, pos) ==
  IF pos > Len(b) THEN [ok |-> FALSE, val |-> 0, next |-> pos]
  ELSE IF b[pos] < 128 THEN [ok |-> TRUE, val |-> b[pos], next |-> pos + 1]
  ELSE LET r == ReadVarint(b, pos + 1)
       IN  [ok |-> r.ok, val |-> (b[pos] - 128) + 128 * r.val, next |-> r.next]

ReadBytes(b, pos) ==
  LET n == ReadVarint(b, pos)
  IN  IF ~n.ok \/ n.next + n.val - 1 > Len(b)
      THEN [ok |-> FALSE, val |-> << >>, next |-> pos]
      ELSE [ok |-> TRUE, val |-> SubSeq(b, n.next, n.next + n.val - 1),
            next |-> n.next + n.val]

BadElement == [ok |-> FALSE, val |-> [Type |-> Unset, Name |-> Unset, Id |-> Unset], next |-> 0]

\* The fields of one Element group, up to its end-group tag (12).
RECURSIVE UnmarshalElement(_, _, _)
UnmarshalElement(b, pos, e) ==
  LET t == ReadVarint(b, pos)
  IN  IF ~t.ok THEN BadElement
      ELSE IF t.val = 12
        THEN IF e.Type = Unset THEN BadElement
             ELSE [ok |-> TRUE, val |-> e, next |-> t.next]
      ELSE IF t.val = 18
        THEN LET f == ReadBytes(b, t.next)
             IN  IF ~f.ok THEN BadElement
                 ELSE UnmarshalElement(b, f.next, [e EXCEPT !.Type = Some(BytesString(f.val))])
      ELSE IF t.val = 24
        THEN LET f == ReadVarint(b, t.next)
             IN  IF ~f.ok THEN BadElement
                 ELSE UnmarshalElement(b, f.next, [e EXCEPT !.Id = Some(f.val)])
      ELSE IF t.val = 34
        THEN LET f == ReadBytes(b, t.next)
             IN  IF ~f.ok THEN BadElement
                 ELSE UnmarshalElement(b, f.next, [e EXCEPT !.Name = Some(BytesString(f.val))])
      ELSE BadElement

RECURSIVE UnmarshalPath(_, _, _)
UnmarshalPath(b, pos, es) ==
  IF pos > Len(b) THEN [ok |-> TRUE, val |-> es]
  ELSE LET t == ReadVarint(b, pos)
       IN  IF ~t.ok \/ t.val # 11 THEN [ok |-> FALSE, val |-> << >>]
           ELSE LET e == UnmarshalElement(b, t.next,
                           [Type |-> Unset, Name |-> Unset, Id |-> Unset])
                IN  IF ~e.ok THEN [ok |-> FALSE, val |-> << >>]
                    ELSE UnmarshalPath(b, e.next, Append(es, e.val))

EmptyReference == [App |-> Unset, NameSpace |-> Unset, Path |-> [Element |-> << >>]]

BadReference == [ok |-> FALSE, val |-> EmptyReference]

RECURSIVE UnmarshalFields(_, _, _, _)
UnmarshalFields(b, pos, ref, hasPath) ==
  IF pos > Len(b)
  THEN IF ref.App = Unset \/ ~hasPath THEN BadReference
       ELSE [ok |-> TRUE, val |-> ref]
  ELSE LET t == ReadVarint(b, pos)
       IN  IF ~t.ok \/ t.val \notin {106, 114, 162} THEN BadReference
           ELSE LET f == ReadBytes(b, t.next)
                IN  IF ~f.ok THEN BadReference
                    ELSE IF t.val = 106
                      THEN UnmarshalFields(b, f.next,
                             [ref EXCEPT !.App = Some(BytesString(f.val))], hasPath)
                    ELSE IF t.val = 162
                      THEN UnmarshalFields(b, f.next,
                             [ref EXCEPT !.NameSpace = Some(BytesString(f.val))], hasPath)
                    ELSE LET p == UnmarshalPath(f.val, 1, ref.Path.Element)
                         IN  IF ~p.ok THEN BadReference
                             ELSE UnmarshalFields(b, f.next,
                                    [ref EXCEPT !.Path = [Element |-> p.val]], TRUE)

Unmarshal(b) == UnmarshalFields(b, 1, EmptyReference, FALSE)

(***************************************************************************)
(* base64.URLEncoding and Key.Encode / DecodeKey                          *)
(***************************************************************************)
B64Alphabet ==
  << "A", "B", "C", "D", "E", "F", "G", "H", "I", "J", "K", "L", "M",
     "N", "O", "P", "Q", "R", "S", "T", "U", "V", "W", "X", "Y", "Z",
     "a", "b", "c", "d", "e", "f", "g", "h", "i", "j", "k", "l", "m",
     "n", "o", "p", "q", "r", "s", "t", "u", "v", "w", "x", "y", "z",
     "0", "1", "2", "3", "4", "5", "6", "7", "8", "9", "-", "_" >>

B64Chars == {B64Alphabet[i] : i \in 1..64}

B64Char(v) == B64Alphabet[v + 1]

B64Table == [c \in B64Chars |-> (CHOOSE i \in 1..64 : B64Alphabet[i] = c) - 1]

B64Value(c) == B64Table[c]

\* base64.URLEncoding.EncodeToString: 3 bytes give 4 characters, a last group of
\* 1 or 2 bytes is padded with "=".
RECURSIVE EncodeToString(_)
EncodeToString(b) ==
  IF b = << >> THEN << >>
  ELSE IF Len(b) = 1
    THEN << B64Char(b[1] \div 4), B64Char((b[1] % 4) * 16), "=", "=" >>
  ELSE IF Len(b) = 2
    THEN << B64Char(b[1] \div 4), B64Char((b[1] % 4) * 16 + b[2] \div 16),
            B64Char((b[2] % 16) * 4), "=" >>
  ELSE << B64Char(b[1] \div 4), B64Char((b[1] % 4) * 16 + b[2] \div 16),
          B64Char((b[2] % 16) * 4 + b[3] \div 64), B64Char(b[3] % 64) >>
       \o EncodeToString(SubSeq(b, 4, Len(b)))

BadBytes == [ok |-> FALSE, val |-> << >>]

\* base64.URLEncoding.DecodeString: quanta of 4 characters; "=" only as the
\* padding of the last quantum; the unused low bits of a padded quantum are
\* not checked.
RECURSIVE DecodeString(_)
DecodeString(s) ==
  IF s = << >> THEN [ok |-> TRUE, val |-> << >>]
  ELSE IF Len(s) < 4 THEN BadBytes
  ELSE IF s[1] \notin B64Chars \/ s[2] \notin B64Chars THEN BadBytes
  ELSE LET v1 == B64Value(s[1])
           v2 == B64Value(s[2])
           byte1 == v1 * 4 + v2 \div 16
       IN  IF s[3] = "="
           THEN IF Len(s) = 4 /\ s[4] = "=" THEN [ok |-> TRUE, val |-> <<byte1>>]
                ELSE BadBytes
           ELSE IF s[3] \notin B64Chars THEN BadBytes
           ELSE LET v3 == B64Value(s[3])
                    byte2 == (v2 % 16) * 16 + v3 \div 4
                IN  IF s[4] = "="
                    THEN IF Len(s) = 4 THEN [ok |-> TRUE, val |-> <<byte1, byte2>>]
                         ELSE BadBytes
                    ELSE IF s[4] \notin B64Chars THEN BadBytes
                    ELSE LET rest == DecodeString(SubSeq(s, 5, Len(s)))
                         IN  IF ~rest.ok THEN BadBytes
                             ELSE [ok |-> TRUE,
                                   val |-> <<byte1, byte2, (v3 % 4) * 64 + B64Value(s[4])>>
                                           \o rest.val]

\* strings.TrimRight(base64 text, "=")
stripPadding(text) == TrimRight(text, {"="})

\* Key.Encode. k must not be nil (keyToProto dereferences it).
Encode(k) == stripPadding(EncodeToString(Marshal(keyToProto(k))))

\* if m := len(encoded) % 4; m != 0 { encoded += strings.Repeat("=", 4-m) }
addPadding(encoded) ==
  IF Len(encoded) % 4 # 0
  THEN encoded \o Repeat(<<"=">>, 4 - (Len(encoded) % 4))
  ELSE encoded

ErrBase64 == "base64: corrupt input"

ErrProto == "proto: bad wire data"

DecodeKey(encoded) ==
  LET b == DecodeString(addPadding(encoded))
  IN  IF ~b.ok THEN [key |-> NilKey, err |-> ErrBase64]
      ELSE LET ref == Unmarshal(b.val)
           IN  IF ~ref.ok THEN [key |-> NilKey, err |-> ErrProto]
               ELSE protoToKey(ref.val)

(***************************************************************************)
(* Key.MarshalJSON / Key.UnmarshalJSON                                     *)
(***************************************************************************)
Quote == "\""

\* []byte(`"` + k.Encode() + `"`)
MarshalJSON(k) == <<Quote>> \o Encode(k) \o <<Quote>>

ErrBadJSON == "datastore: bad JSON key"

\* The run-time panic of *k = *k2 with a nil k2.
PanicNilDereference == "panic: invalid memory address or nil pointer dereference"

\* !(len(buf) < 2 || buf[0] != '"' || buf[len(buf)-1] != '"')
quoted(buf) == Len(buf) >= 2 /\ buf[1] = Quote /\ buf[Len(buf)] = Quote

\* k.UnmarshalJSON(buf): the error (or panic) and the receiver afterwards.
UnmarshalJSON(k, buf) ==
  IF ~quoted(buf) THEN [key |-> k, err |-> ErrBadJSON]
  ELSE LET d == DecodeKey(SubSeq(buf, 2, Len(buf) - 1))
       IN  IF d.err # NoError THEN [key |-> k, err |-> d.err]
           ELSE IF d.key = NilKey THEN [key |-> k, err |-> PanicNilDereference]
           ELSE [key |-> d.key, err |-> NoError]

(***************************************************************************)
(* Errors                                                                  *)
(***************************************************************************)
\* An os.Error made by os.NewError / fmt.Errorf: the format and its arguments.
Error(format, args) == [format |-> format, args |-> args]

\* The nil os.Error.
NilError == Error("nil", << >>)

(***************************************************************************)
(* queryFilter                                                             *)
(***************************************************************************)
\* var operatorToProto = map[string]*pb.Query_Filter_Operator{...}; a missing
\* key gives the nil pointer.
operatorToProto(operator) ==
  IF operator = <<"<">> THEN Some("LESS_THAN")
  ELSE IF operator = <<"<", "=">> THEN Some("LESS_THAN_OR_EQUAL")
  ELSE IF operator = <<"=">> THEN Some("EQUAL")
  ELSE IF operator = <<">", "=">> THEN Some("GREATER_THAN_OR_EQUAL")
  ELSE IF operator = <<">">> THEN Some("GREATER_THAN")
  ELSE Unset

\* Filter values: an int (18) that converts, and a value of a type the datastore
\* has no property for.
IntValue == "int 18"

BadValue == "chan int"

\* valueToProto(name, value, multiple): the property, or a non-empty errStr.
valueToProto(name, value) ==
  IF value = IntValue
  THEN [prop |-> [Name |-> name, Value |-> value], errStr |-> << >>]
  ELSE [prop |-> [Name |-> << >>, Value |-> BadValue], errStr |-> <<"unsupported type">>]

queryFilter_parse_NoEmptyCheck(q) ==
  LET filter == TrimSpace(q.filter)
      property == TrimRight(filter, {" ", ">", "<", "="})
  IN  IF property = << >>
      THEN [property |-> << >>, operator |-> << >>,
            err |-> Error("datastore: empty query filter property", << >>)]
      ELSE [property |-> property,
            operator |-> TrimSpace(SubSeq(filter, Len(property) + 1, Len(filter))),
            err |-> NilError]

filterCutset_NoSpace == {">", "<", "="}

\* The cutset of strings.TrimRight(filter, " ><=").
filterCutset == {" ", ">", "<", "="}

\* queryFilter.parse: (property, operator, err).
queryFilter_parse(q) ==
  LET filter == TrimSpace(q.filter)
  IN  IF filter = << >>
      THEN [property |-> << >>, operator |-> << >>,
            err |-> Error("datastore: invalid query filter: ", <<filter>>)]
      ELSE LET property == TrimRight(filter, filterCutset)
           IN  IF property = << >>
               THEN [property |-> << >>, operator |-> << >>,
                     err |-> Error("datastore: empty query filter property", << >>)]
               ELSE [property |-> property,
                     operator |-> TrimSpace(SubSeq(filter, Len(property) + 1, Len(filter))),
                     err |-> NilError]

\* fmt's %#v of a filter value: 18 for the int; for the channel its type and
\* address, one token here.
GoSyntax(value) ==
  IF value = IntValue THEN <<"1", "8">> ELSE <<"(chan int)(0xc000010000)">>

\* queryFilter.String: fmt.Sprintf("%v%#v", q.filter, q.value).
queryFilter_String(q) == q.filter \o GoSyntax(q.value)

\* var filter pb.Query_Filter
ZeroFilter == [Op |-> Unset, Property |-> << >>]

\* queryFilter.toProto(dst) on a zero dst: the error and what dst holds afterwards.
queryFilter_toProto(q) ==
  LET p == queryFilter_parse(q)
  IN  IF p.err # NilError THEN [dst |-> ZeroFilter, err |-> p.err]
      ELSE LET op == operatorToProto(p.operator)
           IN  IF op = Unset
               THEN [dst |-> [ZeroFilter EXCEPT !.Op = op],
                     err |-> Error("datastore: invalid operator %q in filter %q",
                                   <<p.operator, q.filter>>)]
               ELSE LET v == valueToProto(p.property, q.value)
                    IN  IF v.errStr # << >>
                        THEN [dst |-> [ZeroFilter EXCEPT !.Op = op],
                              err |-> Error("datastore: bad query filter value type: %q",
                                            <<v.errStr>>)]
                        ELSE [dst |-> [Op |-> op, Property |-> <<v.prop>>],
                              err |-> NilError]

(***************************************************************************)
(* queryOrder                                                              *)
(***************************************************************************)
\* var orderDirectionToProto = map[string]*pb.Query_Order_Direction{...}
orderDirectionToProto(direction) ==
  IF direction = "+" THEN Some("ASCENDING")
  ELSE IF direction = "-" THEN Some("DESCENDING")
  ELSE Unset

queryOrder_parse_NoRetrim(q) ==
  LET property == TrimSpace(q)
  IN  IF HasPrefix(property, <<"-">>)
      THEN [property |-> Tail(property), direction |-> "-"]
      ELSE [property |-> property, direction |-> "+"]

\* queryOrder.parse: (property, direction); err is always nil.
queryOrder_parse(q) ==
  LET property == TrimSpace(q)
  IN  IF HasPrefix(property, <<"-">>)
      THEN [property |-> TrimSpace(Tail(property)), direction |-> "-"]
      ELSE [property |-> property, direction |-> "+"]

\* var order pb.Query_Order
ZeroOrder == [Property |-> Unset, Direction |-> Unset]

\* queryOrder.toProto(dst) on a zero dst.
queryOrder_toProto(q) ==
  LET p == queryOrder_parse(q)
  IN  IF p.property = << >>
      THEN [dst |-> ZeroOrder, err |-> Error("datastore: empty query order property", << >>)]
      ELSE [dst |-> [Property |-> Some(p.property),
                     Direction |-> orderDirectionToProto(p.direction)],
            err |-> NilError]

\* queryOrder.String: the property, a space, and ASC or DESC.
queryOrder_String(q) ==
  LET p == queryOrder_parse(q)
  IN  p.property \o <<" ">>
        \o (IF p.direction = "+" THEN <<"A", "S", "C">> ELSE <<"D", "E", "S", "C">>)

(***************************************************************************)
(* Query.toProto                                                           *)
(*                                                                         *)
(* A Query is read as [kind, ancestor, filter, order]: filter and order   *)
(* are the elements its slices hold (the nil slice is << >>).             *)
(***************************************************************************)
\* The os.Error a toProto returns: nil, or the ErrMulti.
NilErrMulti == [isNil |-> TRUE, errs |-> << >>]

\* if len(errMulti) > 0 { return errMulti }; return nil
returnErrMulti(errMulti) ==
  IF Len(errMulti) > 0 THEN [isNil |-> FALSE, errs |-> errMulti] ELSE NilErrMulti

\* The errors of the conversions, up to and including the first failure only.
RECURSIVE collectErrors_FailFast(_)
collectErrors_FailFast(results) ==
  IF results = << >> THEN << >>
  ELSE IF results[1].err # NilError THEN <<results[1].err>>
  ELSE collectErrors_FailFast(Tail(results))

\* errMulti = append(errMulti, err) for every conversion of the loop that fails.
RECURSIVE collectErrors(_)
collectErrors(results) ==
  IF results = << >> THEN << >>
  ELSE (IF results[1].err # NilError THEN <<results[1].err>> ELSE << >>)
       \o collectErrors(Tail(results))

\* var dst pb.Query
ZeroQuery == [Kind |-> Unset, Ancestor |-> Unset, Filter |-> << >>, Order |-> << >>]

\* q.ancestor.toProto(): the Reference of keyToProto; no error is returned.
Key_toProto(k) == keyToProto(k)

\* Query.toProto(dst) on a zero dst: the returned error and dst afterwards.
Query_toProto(q) ==
  LET kindErr == IF q.kind # << >> THEN << >>
                 ELSE <<Error("datastore: empty query kind", << >>)>>
      filters == [i \in 1..Len(q.filter) |-> queryFilter_toProto(q.filter[i])]
      orders  == [i \in 1..Len(q.order) |-> queryOrder_toProto(q.order[i])]
  IN  [dst |-> [Kind     |-> IF q.kind # << >> THEN Some(q.kind) ELSE Unset,
                Ancestor |-> IF q.ancestor # NilKey
                             THEN Some(Key_toProto(q.ancestor)) ELSE Unset,
                Filter   |-> [i \in 1..Len(filters) |-> filters[i].dst],
                Order    |-> [i \in 1..Len(orders) |-> orders[i].dst]],
       err |-> returnErrMulti(kindErr \o collectErrors(filters) \o collectErrors(orders))]

(***************************************************************************)
(* QueryOptions                                                            *)
(***************************************************************************)
\* math.MaxInt32
MaxInt32 == 2147483647

\* A 64-bit int v is the pair (hi, lo) with v = hi * 2^31 + lo and
\* 0 <= lo < 2^31, so that the values on both sides of math.MaxInt32 can be told
\* apart; GoInt(n) is the int n for |n| < 2^31 and OverInt(n) the int 2^31 + n.
GoInt(n) ==
  IF n >= 0 THEN [hi |-> 0, lo |-> n] ELSE [hi |-> -1, lo |-> (MaxInt32 + n) + 1]

OverInt(n) == [hi |-> 1, lo |-> n]

\* a < b
IntLess(a, b) == a.hi < b.hi \/ (a.hi = b.hi /\ a.lo < b.lo)

\* int32(value): the low 32 bits, as a signed number.
ToInt32(value) ==
  IF value.hi % 2 = 0 THEN value.lo ELSE (value.lo - MaxInt32) - 1

validInt32_NoUpperBound(value, name) ==
  IF IntLess(value, GoInt(0)) THEN Error("datastore: negative value for ", <<name>>)
  ELSE NilError

\* validInt32: nil, or the error naming the value.
validInt32(value, name) ==
  IF IntLess(value, GoInt(0)) THEN Error("datastore: negative value for ", <<name>>)
  ELSE IF IntLess(GoInt(MaxInt32), value)
  THEN Error("datastore: value overflow for ", <<name>>)
  ELSE NilError

\* A nil *Cursor.
NilCursor == << >>

\* &QueryOptions{limit: limit, offset: offset}
NewQueryOptions(limit, offset) ==
  [limit |-> limit, offset |-> offset, keysOnly |-> FALSE, compile |-> FALSE,
   startCursor |-> NilCursor, endCursor |-> NilCursor]

\* A pb.Query none of whose option fields is set.
ZeroOptionsQuery ==
  [Limit |-> Unset, Offset |-> Unset, KeysOnly |-> Unset, Compile |-> Unset,
   CompiledCursor |-> Unset, EndCompiledCursor |-> Unset]

optionCursors_Swapped(o) ==
  [CompiledCursor |-> IF o.endCursor # NilCursor
                      THEN o.endCursor.compiledCursor ELSE Unset,
   EndCompiledCursor |-> IF o.startCursor # NilCursor
                         THEN o.startCursor.compiledCursor ELSE Unset]

\* if o.startCursor != nil { dst.CompiledCursor = o.startCursor.compiledCursor }
\* if o.endCursor != nil { dst.EndCompiledCursor = o.endCursor.compiledCursor }
optionCursors(o) ==
  [CompiledCursor |-> IF o.startCursor # NilCursor
                      THEN o.startCursor.compiledCursor ELSE Unset,
   EndCompiledCursor |-> IF o.endCursor # NilCursor
                         THEN o.endCursor.compiledCursor ELSE Unset]

\* QueryOptions.toProto(dst) on a dst without option fields: the ErrMulti (or
\* nil) and what dst holds afterwards.
QueryOptions_toProto(o) ==
  LET limitErr == validInt32(o.limit, "limit")
      offsetErr == validInt32(o.offset, "offset")
      errMulti == (IF limitErr # NilError THEN <<limitErr>> ELSE << >>)
                    \o (IF offsetErr # NilError THEN <<offsetErr>> ELSE << >>)
      cursors == optionCursors(o)
  IN  [dst |-> [Limit |-> IF limitErr # NilError THEN Unset ELSE Some(ToInt32(o.limit)),
                Offset |-> IF offsetErr # NilError THEN Unset ELSE Some(ToInt32(o.offset)),
                KeysOnly |-> Some(o.keysOnly),
                Compile |-> Some(o.compile),
                CompiledCursor |-> cursors.CompiledCursor,
                EndCompiledCursor |-> cursors.EndCompiledCursor],
       err |-> returnErrMulti(errMulti)]

storeCopy_Aliased(heap, o, c) == Append([heap EXCEPT ![o] = c], c)

\* c := *o; c.field = value; return &c: the copy c is a new struct and o's
\* struct is not written.
storeCopy(heap, o, c) == Append(heap, c)

\* The QueryOptions builders: the heap after the call (the result is its last
\* struct).
QueryOptions_Limit(heap, o, limit) == storeCopy(heap, o, [heap[o] EXCEPT !.limit = limit])

QueryOptions_Offset(heap, o, offset) == storeCopy(heap, o, [heap[o] EXCEPT !.offset = offset])

QueryOptions_KeysOnly(heap, o, keysOnly) ==
  storeCopy(heap, o, [heap[o] EXCEPT !.keysOnly = keysOnly])

QueryOptions_Compile(heap, o, compile) ==
  storeCopy(heap, o, [heap[o] EXCEPT !.compile = compile])

QueryOptions_Cursor_AsEnd(heap, o, cursor) ==
  storeCopy(heap, o, [heap[o] EXCEPT !.endCursor = cursor])

\* c := *o; c.startCursor = cursor; return &c
QueryOptions_Cursor(heap, o, cursor) ==
  storeCopy(heap, o, [heap[o] EXCEPT !.startCursor = cursor])

(***************************************************************************)
(* Query.String                                                            *)
(***************************************************************************)
\* A string literal of the source as a sequence of characters.
SelectAll == <<"S", "E", "L", "E", "C", "T", " ", "*">>

From == <<" ", "F", "R", "O", "M", " ">>

Where == <<" ", "W", "H", "E", "R", "E">>

And == <<" ", "A", "N", "D">>

AncestorIsKey ==
  Where \o <<" ", "A", "N", "C", "E", "S", "T", "O", "R", " ", "I", "S", " ",
             "K", "E", "Y", "(", "'">>

OrderBy == <<" ", "O", "R", "D", "E", "R", " ", "B", "Y">>

\* The filter loop of Query.String from the i-th filter on.
RECURSIVE filterTerms(_, _, _)
filterTerms(filters, i, hasWhere) ==
  IF i > Len(filters) THEN << >>
  ELSE (IF hasWhere THEN And ELSE Where)
         \o <<" ">> \o queryFilter_String(filters[i])
         \o filterTerms(filters, i + 1, TRUE)

\* The order loop of Query.String from the i-th order on.
RECURSIVE orderTerms(_, _)
orderTerms(orders, i) ==
  IF i > Len(orders) THEN << >>
  ELSE (IF i > 1 THEN <<",">> ELSE << >>)
         \o <<" ">> \o queryOrder_String(orders[i])
         \o orderTerms(orders, i + 1)

\* Query.String
Query_String(q) ==
  SelectAll
    \o (IF q.kind # << >> THEN From \o q.kind ELSE << >>)
    \o (IF q.ancestor # NilKey
        THEN AncestorIsKey \o Encode(q.ancestor) \o <<"'", ")">> ELSE << >>)
    \o filterTerms(q.filter, 1, q.ancestor # NilKey)
    \o (IF q.order # << >> THEN OrderBy \o orderTerms(q.order, 1) ELSE << >>)

(***************************************************************************)
(* Slices: the filter and order fields of a Query                         *)
(*                                                                         *)
(* A slice is [array, len, cap]: array is the index of its backing array  *)
(* in the heap of arrays (0 for the nil slice); an array is the sequence  *)
(* of its cap cells.                                                       *)
(***************************************************************************)
NilSlice == [array |-> 0, len |-> 0, cap |-> 0]

\* The zero queryFilter and the zero queryOrder of a fresh array cell.
ZeroFilterCell == [filter |-> << >>, value |-> "nil"]

ZeroOrderCell == << >>

\* The capacity append gives the array it allocates: room for the elements
\* needed, by doubling the old capacity.
RECURSIVE growCap(_, _)
growCap(cap, needed) ==
  IF cap = 0 THEN needed
  ELSE IF cap >= needed THEN cap
  ELSE growCap(cap + cap, needed)

\* The elements a slice holds.
Elements(arrays, s) == [i \in 1..s.len |-> arrays[s.array][i]]

\* The array append(s, ...) allocates when s is full: the elements of s, then
\* zero cells up to the new capacity.
grownArray(arrays, s, zero) ==
  [i \in 1..growCap(s.cap, s.len + 1) |->
     IF i <= s.len THEN arrays[s.array][i] ELSE zero]

\* append always allocates a new array.
appendSlice_AlwaysCopy(arrays, s, x, zero) ==
  [arrays |-> Append(arrays, [grownArray(arrays, s, zero) EXCEPT ![s.len + 1] = x]),
   slice  |-> [array |-> Len(arrays) + 1, len |-> s.len + 1,
               cap |-> growCap(s.cap, s.len + 1)]]

\* append(s, x): with spare capacity x is stored in the array s already has,
\* otherwise in a new array holding a copy of the elements of s.
appendSlice(arrays, s, x, zero) ==
  IF s.len < s.cap
  THEN [arrays |-> [arrays EXCEPT ![s.array][s.len + 1] = x],
        slice  |-> [s EXCEPT !.len = s.len + 1]]
  ELSE [arrays |-> Append(arrays, [grownArray(arrays, s, zero) EXCEPT ![s.len + 1] = x]),
        slice  |-> [array |-> Len(arrays) + 1, len |-> s.len + 1,
                    cap |-> growCap(s.cap, s.len + 1)]]

\* &Query{kind: kind}
NewQuery(kind) ==
  [kind |-> kind, ancestor |-> NilKey, filter |-> NilSlice, order |-> NilSlice]

\* What a Query holds: its kind, its ancestor and the elements of its slices.
QueryValue(q, fArrays, oArrays) ==
  [kind |-> q.kind, ancestor |-> q.ancestor,
   filter |-> Elements(fArrays, q.filter), order |-> Elements(oArrays, q.order)]

(***************************************************************************)
(* State                                                                   *)
(***************************************************************************)
VARIABLES
  key,    \* the *Key under test (a chain, leaf first; << >> is nil)
  kres,   \* the operation applied to key and what it returned (NoResult before)
  filt,   \* the queryFilter under test
  fres,   \* the operation applied to filt and what it returned
  tq,     \* the Query handed to Query.toProto
  tres,   \* what Query.toProto returned and left in dst
  queries,       \* the Query structs built so far, in the order they were returned
  filterArrays,  \* the backing arrays of the filter slices
  orderArrays,   \* the backing arrays of the order slices
  returned,      \* for each Query, what it held when its builder returned it
  base,   \* the Query shared by the concurrent callers (0 while it is being built)
  pc,     \* where each concurrent caller is in its Filter or Order call
  local,   \* each caller's call and argument, its copy c, the array it stores to, its result
  ord,   \* the queryOrder under test
  ores,   \* the operation applied to ord and what it returned
  opts,   \* the QueryOptions handed to QueryOptions.toProto
  optres,   \* what QueryOptions.toProto returned and left in dst
  options,   \* the QueryOptions structs built so far, in the order they were returned
  optReturned,   \* for each QueryOptions, the call that built it and what it held when returned
  batch,   \* the []*Key handed to multiValid
  bres,   \* what multiValid returned
  files,   \* the session files of the store directory, by session ID
  fileMutex,   \* the request holding fileMutex for writing, or 0
  requests,   \* the requests that use the store
  spc,   \* where each request is in Save or New
  slocal,   \* the session and the locals of writeFile or readFile of each request
  sres,   \* what the last New of each request returned
  lastSaved   \* the Values of the most recent Save that returned, by session ID

keyVars == <<key, kres>>

filterVars == <<filt, fres>>

toProtoVars == <<tq, tres>>

queryVars == <<queries, filterArrays, orderArrays, returned>>

concVars == <<base, pc, local>>

orderVars == <<ord, ores>>

optionVars == <<opts, optres>>

optBuildVars == <<options, optReturned>>

batchVars == <<batch, bres>>

storeVars == <<files, fileMutex, requests, spc, slocal, sres, lastSaved>>

vars ==
  <<key, kres, filt, fres, tq, tres, queries, filterArrays, orderArrays, returned,
    base, pc, local,
    ord, ores,
    opts, optres,
    options, optReturned,
    batch, bres,
    files, fileMutex, requests, spc, slocal, sres, lastSaved>>

\* What the operations on keys, on filters, of Query.toProto and of the Query
\* builders leave alone.
exceptKey == <<filterVars, toProtoVars, queryVars, concVars, orderVars, optionVars, optBuildVars, batchVars, storeVars>>

exceptFilter == <<keyVars, toProtoVars, queryVars, concVars, orderVars, optionVars, optBuildVars, batchVars, storeVars>>

exceptToProto == <<keyVars, filterVars, queryVars, concVars, orderVars, optionVars, optBuildVars, batchVars, storeVars>>

exceptQuery == <<keyVars, filterVars, toProtoVars, concVars, orderVars, optionVars, optBuildVars, batchVars, storeVars>>

\* ... and what the concurrent callers leave alone besides the Query heap.
exceptConc == <<keyVars, filterVars, toProtoVars, orderVars, optionVars, optBuildVars, batchVars, storeVars>>

exceptOrder == <<keyVars, filterVars, toProtoVars, queryVars, concVars, optionVars, optBuildVars, batchVars, storeVars>>

exceptOptions == <<keyVars, filterVars, toProtoVars, queryVars, concVars, orderVars, optBuildVars, batchVars, storeVars>>

exceptOptBuild == <<keyVars, filterVars, toProtoVars, queryVars, concVars, orderVars, optionVars, batchVars, storeVars>>

exceptBatch == <<keyVars, filterVars, toProtoVars, queryVars, concVars, orderVars, optionVars, optBuildVars, storeVars>>

exceptStore == <<keyVars, filterVars, toProtoVars, queryVars, concVars, orderVars, optionVars, optBuildVars, batchVars>>

(***************************************************************************)
(* Bounds and input alphabets                                             *)
(***************************************************************************)
\* Longest ancestor chain that is built.
MaxDepth == 2

\* Longest filter text.
MaxFilterLen == 4

\* Longest order text.
MaxOrderLen == 4

\* Most filters, and most orders, of a Query handed to toProto.
MaxFilters == 2

MaxOrders == 2

\* Most Query values built from the first one.
MaxQueries == 6

\* Most Filter and Order calls that build the Query the concurrent callers share.
MaxBaseCalls == 3

\* Most QueryOptions values built from the first one.
MaxOptions == 4

\* Most keys of a batch.
MaxBatch == 3

\* Most entries of session.Values.
MaxValues == 2

\* Most requests that use the session store at a time.
MaxRequests == 2

\* All sequences over S of length 0..n.
BoundedSeq(S, n) == UNION {[1..m -> S] : m \in 0..n}

AppIDs == {<< >>, <<"a">>, <<"b">>}

Kinds == {<< >>, <<"K">>}

StringIDs == {<< >>, <<"n">>}

IntIDs == {0, 300}

Namespaces == {<< >>, <<"s">>}

\* Every node NewNamespaceKey can build from the alphabets.
Nodes ==
  [kind : Kinds, stringID : StringIDs, intID : IntIDs, appID : AppIDs,
   namespace : Namespaces]

\* Every chain of 1..d nodes.
RECURSIVE Chains(_)
Chains(d) ==
  IF d = 0 THEN {NilKey}
  ELSE LET shorter == Chains(d - 1)
       IN  shorter \cup {<<n>> \o p : n \in Nodes, p \in {c \in shorter : Len(c) = d - 1}}

Keys == Chains(MaxDepth)

\* Keys to compare a key with: nil, itself, its parent, a child of it, and the
\* key with one field of its leaf or of its root changed.
Others(k) ==
  IF k = NilKey THEN {NilKey} \cup {<<n>> : n \in Nodes}
  ELSE {NilKey, k, Tail(k), <<k[1]>> \o k}
       \cup UNION {{[k EXCEPT ![i] = n] :
                       n \in {m \in Nodes :
                                Cardinality({f \in DOMAIN m : m[f] # k[i][f]}) = 1}} :
                    i \in {1, Len(k)}}

NoResult == [op |-> "none", other |-> NilKey, text |-> << >>, key |-> NilKey,
             err |-> NoError, ret |-> FALSE, args |-> << >>, ref |-> << >>]

(***************************************************************************)
(* Key operations                                                          *)
(***************************************************************************)
KeyInit ==
  /\ key \in Keys
  /\ kres = NoResult

\* k.valid()
DoValid ==
  /\ kres = NoResult
  /\ kres' = [NoResult EXCEPT !.op = "valid", !.ret = valid(key)]
  /\ UNCHANGED <<key, exceptKey>>

\* k.Equal(o)
DoEqual ==
  /\ kres = NoResult
  /\ \E o \in Others(key) :
       kres' = [NoResult EXCEPT !.op = "Equal", !.other = o, !.ret = Equal(key, o)]
  /\ UNCHANGED <<key, exceptKey>>

\* DecodeKey(k.Encode())
DoEncodeDecode ==
  /\ kres = NoResult
  /\ key # NilKey
  /\ LET text == Encode(key)
         d == DecodeKey(text)
     IN  kres' = [NoResult EXCEPT !.op = "DecodeKey", !.text = text,
                                  !.key = d.key, !.err = d.err]
  /\ UNCHANGED <<key, exceptKey>>

\* k.String()
DoString ==
  /\ kres = NoResult
  /\ kres' = [NoResult EXCEPT !.op = "String", !.text = String(key)]
  /\ UNCHANGED <<key, exceptKey>>

\* k.String() of dev/exp/appengine/datastore
DoDevString ==
  /\ kres = NoResult
  /\ kres' = [NoResult EXCEPT !.op = "dev String", !.text = dev_String(key)]
  /\ UNCHANGED <<key, exceptKey>>

KeyNext == DoValid \/ DoEqual \/ DoEncodeDecode \/ DoString \/ DoDevString

\* Characters put in the place of one character of an encoded key: two of the
\* base64 alphabet and one outside it.
CorruptChars == {"A", "b", "!"}

\* DecodeKey(text) for k.Encode() with the i-th character replaced by c
DoDecodeCorrupted ==
  /\ kres = NoResult
  /\ key # NilKey
  /\ LET encoded == Encode(key)
     IN  \E i \in 1..Len(encoded) : \E c \in CorruptChars \ {encoded[i]} :
           LET text == [encoded EXCEPT ![i] = c]
               d == DecodeKey(text)
           IN  kres' = [NoResult EXCEPT !.op = "DecodeKey corrupted", !.text = text,
                                        !.key = d.key, !.err = d.err]
  /\ UNCHANGED <<key, exceptKey>>

\* k.MarshalJSON()
DoMarshalJSON ==
  /\ kres = NoResult
  /\ key # NilKey
  /\ kres' = [NoResult EXCEPT !.op = "MarshalJSON", !.text = MarshalJSON(key)]
  /\ UNCHANGED <<key, exceptKey>>

\* An encoded key to find in a JSON document: app "a", kind "K", name "n".
SampleKey == NewKey(<<"a">>, <<"K">>, <<"n">>, 0, NilKey)

\* The encoding of a Reference with app "a" and a path without elements.
EmptyPathText == <<"a", "g", "F", "h", "c", "g", "A">>

\* JSON values handed to k.UnmarshalJSON: encoded keys in quotes, the same with
\* a quote missing or the text altered, and short inputs.
JSONInputs(k) ==
  { MarshalJSON(k), MarshalJSON(SampleKey),
    Encode(SampleKey),
    <<Quote>> \o Encode(SampleKey),
    Encode(SampleKey) \o <<Quote>>,
    <<Quote>> \o Encode(SampleKey) \o <<"!", Quote>>,
    <<Quote>> \o Tail(Encode(SampleKey)) \o <<Quote>>,
    <<Quote>> \o EmptyPathText \o <<Quote>>,
    << >>, <<Quote>>, <<Quote, Quote>> }

\* k.UnmarshalJSON(buf)
DoUnmarshalJSON ==
  /\ kres = NoResult
  /\ key # NilKey
  /\ \E buf \in JSONInputs(key) :
       LET r == UnmarshalJSON(key, buf)
       IN  kres' = [NoResult EXCEPT !.op = "UnmarshalJSON", !.text = buf,
                                    !.key = r.key, !.err = r.err]
  /\ UNCHANGED <<key, exceptKey>>

\* NewNamespaceKey(c, kind, stringID, intID, parent, namespace) with the key
\* under test as the parent
DoNewNamespaceKey ==
  /\ kres = NoResult
  /\ \E kind \in Kinds, stringID \in StringIDs, intID \in IntIDs, namespace \in Namespaces :
       kres' = [NoResult EXCEPT
                  !.op = "NewNamespaceKey",
                  !.args = [kind |-> kind, stringID |-> stringID, intID |-> intID,
                            namespace |-> namespace],
                  !.key = NewNamespaceKey(<<"a">>, kind, stringID, intID, key, namespace)]
  /\ UNCHANGED <<key, exceptKey>>

\* keyToProto(k)
DoKeyToProto ==
  /\ kres = NoResult
  /\ key # NilKey
  /\ kres' = [NoResult EXCEPT !.op = "keyToProto", !.ref = keyToProto(key)]
  /\ UNCHANGED <<key, exceptKey>>

\* The wire reference that holds the fields of the chain as they are, root
\* first: a name and an id where the node has both, no element for nil.
ReferenceOf(k) ==
  [App       |-> IF k # NilKey /\ k[1].appID # << >> THEN Some(k[1].appID) ELSE Unset,
   NameSpace |-> IF k # NilKey /\ k[1].namespace # << >>
                 THEN Some(k[1].namespace) ELSE Unset,
   Path      |-> [Element |->
                    [j \in 1..Len(k) |->
                       LET n == k[Len(k) + 1 - j]
                       IN  [Type |-> IF n.kind # << >> THEN Some(n.kind) ELSE Unset,
                            Name |-> IF n.stringID # << >> THEN Some(n.stringID) ELSE Unset,
                            Id   |-> IF n.intID # 0 THEN Some(n.intID) ELSE Unset]]]]

\* protoToKey(r)
DoProtoToKey ==
  /\ kres = NoResult
  /\ LET r == ReferenceOf(key)
         d == protoToKey(r)
     IN  kres' = [NoResult EXCEPT !.op = "protoToKey", !.ref = r,
                                  !.key = d.key, !.err = d.err]
  /\ UNCHANGED <<key, exceptKey>>

\* referenceValueToKey(r)
DoReferenceValueToKey ==
  /\ kres = NoResult
  /\ LET r == ReferenceOf(key)
         d == referenceValueToKey([App |-> r.App, NameSpace |-> r.NameSpace,
                                   Pathelement |-> r.Path.Element])
     IN  kres' = [NoResult EXCEPT !.op = "referenceValueToKey", !.ref = r,
                                  !.key = d.key, !.err = d.err]
  /\ UNCHANGED <<key, exceptKey>>

\* DecodeKey(encoded) of the text a peer sends for the key: its encoding, and
\* for no key the encoding of a Reference without path elements.
DoDecodeKey ==
  /\ kres = NoResult
  /\ LET encoded == IF key = NilKey THEN EmptyPathText ELSE Encode(key)
         d == DecodeKey(encoded)
     IN  kres' = [NoResult EXCEPT !.op = "DecodeKey", !.text = encoded,
                                  !.key = d.key, !.err = d.err]
  /\ UNCHANGED <<key, exceptKey>>

KeyIdle == key = NilKey /\ kres = NoResult

(***************************************************************************)
(* queryFilter operations                                                  *)
(***************************************************************************)
FilterChars == {"a", " ", "\t", "<", "=", ">", "!", "I", "N"}

FilterValues == {IntValue, BadValue}

NoFilterResult ==
  [op |-> "none", property |-> << >>, operator |-> << >>, dst |-> ZeroFilter,
   err |-> NilError]

FilterInit ==
  /\ filt \in [filter : BoundedSeq(FilterChars, MaxFilterLen), value : FilterValues]
  /\ fres = NoFilterResult

FilterIdle == filt = [filter |-> << >>, value |-> IntValue] /\ fres = NoFilterResult

\* property, operator, err := q.parse()
DoFilterParse ==
  /\ fres = NoFilterResult
  /\ LET p == queryFilter_parse(filt)
     IN  fres' = [NoFilterResult EXCEPT !.op = "parse", !.property = p.property,
                                        !.operator = p.operator, !.err = p.err]
  /\ UNCHANGED <<filt, exceptFilter>>

\* err := q.toProto(&filter)
DoFilterToProto ==
  /\ fres = NoFilterResult
  /\ LET r == queryFilter_toProto(filt)
     IN  fres' = [NoFilterResult EXCEPT !.op = "toProto", !.dst = r.dst, !.err = r.err]
  /\ UNCHANGED <<filt, exceptFilter>>

FilterNext == DoFilterParse \/ DoFilterToProto

(***************************************************************************)
(* queryOrder operations                                                   *)
(***************************************************************************)
OrderChars == {"a", " ", "\t", "-", "+"}

NoOrderResult == [op |-> "none", dst |-> ZeroOrder, err |-> NilError, text |-> << >>]

OrderInit ==
  /\ ord \in BoundedSeq(OrderChars, MaxOrderLen)
  /\ ores = NoOrderResult

OrderIdle == ord = << >> /\ ores = NoOrderResult

\* err := o.toProto(&order)
DoOrderToProto ==
  /\ ores = NoOrderResult
  /\ LET r == queryOrder_toProto(ord)
     IN  ores' = [NoOrderResult EXCEPT !.op = "toProto", !.dst = r.dst, !.err = r.err]
  /\ UNCHANGED <<ord, exceptOrder>>

\* order.String()
DoOrderString ==
  /\ ores = NoOrderResult
  /\ ores' = [NoOrderResult EXCEPT !.op = "String", !.text = queryOrder_String(ord)]
  /\ UNCHANGED <<ord, exceptOrder>>

OrderNext == DoOrderToProto \/ DoOrderString

(***************************************************************************)
(* Query.toProto operation                                                 *)
(***************************************************************************)
ValidAncestor == NewKey(<<"a">>, <<"K">>, <<"n">>, 0, NilKey)

\* A key with an incomplete parent and no kind.
InvalidAncestor ==
  NewKey(<<"a">>, << >>, << >>, 300, NewKey(<<"a">>, <<"K">>, << >>, 0, NilKey))

\* One filter that converts, one with an unsupported operator, one that does
\* not parse, one whose value does not convert.
SampleFilters ==
  { [filter |-> <<"a", " ", ">", "=">>, value |-> IntValue],
    [filter |-> <<"a", " ", "!">>, value |-> IntValue],
    [filter |-> << >>, value |-> IntValue],
    [filter |-> <<"a", " ", "=">>, value |-> BadValue] }

SampleOrders == { <<"a">>, <<"-", "a">>, << >>, <<" ", "-">> }

SampleQueries ==
  [kind : {<< >>, <<"P">>},
   ancestor : {NilKey, ValidAncestor, InvalidAncestor},
   filter : BoundedSeq(SampleFilters, MaxFilters),
   order : BoundedSeq(SampleOrders, MaxOrders)]

NoToProtoResult ==
  [op |-> "none", dst |-> ZeroQuery, err |-> NilErrMulti, text |-> << >>]

\* NewQuery("Person").Filter("age >=", 18).Order("-age")
PersonQuery ==
  [kind |-> <<"P", "e", "r", "s", "o", "n">>, ancestor |-> NilKey,
   filter |-> <<[filter |-> <<"a", "g", "e", " ", ">", "=">>, value |-> IntValue]>>,
   order |-> << <<"-", "a", "g", "e">> >>]

ToProtoInit ==
  /\ tq \in SampleQueries \cup {PersonQuery}
  /\ tres = NoToProtoResult

ToProtoIdle ==
  /\ tq = [kind |-> << >>, ancestor |-> NilKey, filter |-> << >>, order |-> << >>]
  /\ tres = NoToProtoResult

\* err := q.toProto(&dst)
DoQueryToProto ==
  /\ tres = NoToProtoResult
  /\ LET r == Query_toProto(tq)
     IN  tres' = [NoToProtoResult EXCEPT !.op = "toProto", !.dst = r.dst, !.err = r.err]
  /\ UNCHANGED <<tq, exceptToProto>>

\* q.String()
DoQueryString ==
  /\ tres = NoToProtoResult
  /\ tres' = [NoToProtoResult EXCEPT !.op = "String", !.text = Query_String(tq)]
  /\ UNCHANGED <<tq, exceptToProto>>

ToProtoNext == DoQueryToProto \/ DoQueryString

(***************************************************************************)
(* QueryOptions.toProto operation                                          *)
(***************************************************************************)
\* Limits and offsets around both ends of the int32 range: -1, 0, 1, 2^31-1, 2^31.
OptionInts == {GoInt(-1), GoInt(0), GoInt(1), GoInt(MaxInt32), OverInt(0)}

\* Cursors: nil, and two cursors with different compiled cursors.
SampleCursors ==
  {NilCursor, [compiledCursor |-> Some("cursor 1")], [compiledCursor |-> Some("cursor 2")]}

SampleOptions ==
  [limit : OptionInts, offset : OptionInts, keysOnly : BOOLEAN, compile : BOOLEAN,
   startCursor : SampleCursors, endCursor : SampleCursors]

\* The queries of the requests: one that converts and one with the filter "".
RequestQueries ==
  { [kind |-> <<"P">>, ancestor |-> NilKey, order |-> << >>,
     filter |-> <<[filter |-> f, value |-> IntValue]>>] :
      f \in {<<"a", " ", "=">>, << >>} }

NoOptionsResult == [op |-> "none", dst |-> ZeroOptionsQuery, err |-> NilErrMulti]

\* A request: a Query and the QueryOptions to run it with.
OptionsInit ==
  /\ opts \in SampleOptions
  /\ optres = NoOptionsResult
  /\ tq \in RequestQueries
  /\ tres = NoToProtoResult

OptionsIdle == opts = NewQueryOptions(GoInt(0), GoInt(0)) /\ optres = NoOptionsResult

\* err := o.toProto(&dst)
DoOptionsToProto ==
  /\ optres = NoOptionsResult
  /\ LET r == QueryOptions_toProto(opts)
     IN  optres' = [op |-> "toProto", dst |-> r.dst, err |-> r.err]
  /\ UNCHANGED <<opts, exceptOptions>>

OptionsNext == DoOptionsToProto \/ DoQueryToProto

(***************************************************************************)
(* QueryOptions builders                                                   *)
(***************************************************************************)
BuilderInts == {GoInt(-1), GoInt(5)}

BuilderCursors == {NilCursor, [compiledCursor |-> Some("cursor 1")]}

OptBuildInit ==
  /\ options = <<NewQueryOptions(GoInt(0), GoInt(0))>>
  /\ optReturned = <<[call |-> "NewQueryOptions", from |-> 0, arg |-> GoInt(0),
                      value |-> NewQueryOptions(GoInt(0), GoInt(0))]>>

OptBuildIdle == options = << >> /\ optReturned = << >>

\* The call is recorded with the struct it returned.
returnOptions(call, o, arg, heap) ==
  /\ options' = heap
  /\ optReturned' = Append(optReturned, [call |-> call, from |-> o, arg |-> arg,
                                         value |-> heap[Len(heap)]])
  /\ UNCHANGED exceptOptBuild

\* o.Limit(limit)
DoLimit ==
  /\ Len(options) < MaxOptions
  /\ \E o \in 1..Len(options), limit \in BuilderInts :
       returnOptions("Limit", o, limit, QueryOptions_Limit(options, o, limit))

\* o.Offset(offset)
DoOffset ==
  /\ Len(options) < MaxOptions
  /\ \E o \in 1..Len(options), offset \in BuilderInts :
       returnOptions("Offset", o, offset, QueryOptions_Offset(options, o, offset))

\* o.KeysOnly(keysOnly)
DoKeysOnly ==
  /\ Len(options) < MaxOptions
  /\ \E o \in 1..Len(options), keysOnly \in BOOLEAN :
       returnOptions("KeysOnly", o, keysOnly, QueryOptions_KeysOnly(options, o, keysOnly))

\* o.Compile(compile)
DoCompile ==
  /\ Len(options) < MaxOptions
  /\ \E o \in 1..Len(options), compile \in BOOLEAN :
       returnOptions("Compile", o, compile, QueryOptions_Compile(options, o, compile))

\* o.Cursor(cursor)
DoCursor ==
  /\ Len(options) < MaxOptions
  /\ \E o \in 1..Len(options), cursor \in BuilderCursors :
       returnOptions("Cursor", o, cursor, QueryOptions_Cursor(options, o, cursor))

OptBuildNext == DoLimit \/ DoOffset \/ DoKeysOnly \/ DoCompile \/ DoCursor

(***************************************************************************)
(* multiValid operation                                                    *)
(***************************************************************************)
\* Keys of a batch: nil, a valid key, a valid key with a parent, and a key
\* with an incomplete parent and no kind.
BatchKeys ==
  { NilKey, ValidAncestor, InvalidAncestor,
    NewKey(<<"a">>, <<"K">>, << >>, 300, ValidAncestor) }

NoBatchResult == [op |-> "none", err |-> [isNil |-> TRUE, errs |-> << >>]]

BatchInit ==
  /\ batch \in BoundedSeq(BatchKeys, MaxBatch)
  /\ bres = NoBatchResult

BatchIdle == batch = << >> /\ bres = NoBatchResult

\* err := multiValid(key)
DoMultiValid ==
  /\ bres = NoBatchResult
  /\ bres' = [op |-> "multiValid", err |-> multiValid(batch)]
  /\ UNCHANGED <<batch, exceptBatch>>

(***************************************************************************)
(* FilesystemStore: Save, New, writeFile, readFile                         *)
(***************************************************************************)
\* The entries session.Values can hold.
ValueChars == {"x", "y"}

\* The Values of the sessions saved: none, one entry, another entry of the
\* same length, and the longest.
SessionValues ==
  { << >>, <<"x">>, <<"y">> } \cup { [i \in 1..MaxValues |-> "x"] }

SessionIDs == {"id1", "id2"}

\* The authentication code that ends an encoded text.
Mac == "#"

\* securecookie.EncodeMulti(session.Name(), session.Values, s.Codecs...): a
\* text that grows with the values and ends with their authentication code.
EncodeMulti(values) == values \o <<Mac>>

\* securecookie.DecodeMulti(session.Name(), string(fdata), &session.Values,
\* s.Codecs...): the values of a text EncodeMulti made, an error and no values
\* for any other text.
DecodeMulti(fdata) ==
  IF /\ fdata # << >>
     /\ fdata[Len(fdata)] = Mac
     /\ \A i \in 1..(Len(fdata) - 1) : fdata[i] \in ValueChars
  THEN [values |-> SubSeq(fdata, 1, Len(fdata) - 1), err |-> NoError]
  ELSE [values |-> << >>, err |-> "securecookie: the value is not valid"]

\* buf := make([]byte, 128)
BufLen == 128

NoFile == [exists |-> FALSE, data |-> << >>]

\* os.OpenFile(filename, os.O_WRONLY|os.O_CREATE, 0600): a missing file is
\* created empty, an existing file keeps its content.
OpenFile_Create(f) == [exists |-> TRUE, data |-> f.data]

\* fp.Write([]byte(encoded)) on a file just opened: the bytes replace those at
\* the start of the file, and what the file held beyond them stays.
Write(f, encoded) ==
  [f EXCEPT !.data = encoded \o SubSeq(f.data, Len(encoded) + 1, Len(f.data))]

StoreProcs == 1..MaxRequests

NoSession == [ID |-> "", Values |-> << >>]

NoStoreLocal == [session |-> NoSession, encoded |-> << >>, offset |-> 0, fdata |-> << >>]

NoStoreResult == [op |-> "none", ID |-> "", Values |-> << >>, err |-> NoError, IsNew |-> FALSE]

\* No Save of the session ID has returned yet.
NoSave == <<"no save">>

StoreInit ==
  /\ files = [id \in SessionIDs |-> NoFile]
  /\ fileMutex = 0
  /\ requests \in {{1}, StoreProcs}
  /\ spc = [p \in StoreProcs |-> "idle"]
  /\ slocal = [p \in StoreProcs |-> NoStoreLocal]
  /\ sres = [p \in StoreProcs |-> NoStoreResult]
  /\ lastSaved = [id \in SessionIDs |-> NoSave]

StoreIdle ==
  /\ files = << >>
  /\ fileMutex = 0
  /\ requests = {}
  /\ spc = << >>
  /\ slocal = << >>
  /\ sres = << >>
  /\ lastSaved = << >>

\* Save returns nil: the cookie with the session ID is set.
Save_return(p, session) ==
  /\ spc' = [spc EXCEPT ![p] = "idle"]
  /\ slocal' = [slocal EXCEPT ![p] = NoStoreLocal]
  /\ lastSaved' = [lastSaved EXCEPT ![session.ID] = session.Values]

\* s.Save(r, w, session) up to fileMutex.Lock() in writeFile; a session without
\* an ID gets a generated one, and with no Values writeFile returns at once.
Save ==
  \E p \in requests, id \in SessionIDs, values \in SessionValues :
    /\ spc[p] = "idle"
    /\ sres' = [sres EXCEPT ![p] = NoStoreResult]
    /\ LET session == [ID |-> id, Values |-> values]
       IN  IF Len(values) = 0
           THEN Save_return(p, session)
           ELSE /\ spc' = [spc EXCEPT ![p] = "Lock"]
                /\ slocal' = [slocal EXCEPT ![p] =
                                [NoStoreLocal EXCEPT !.session = session,
                                                     !.encoded = EncodeMulti(values)]]
                /\ UNCHANGED lastSaved
    /\ UNCHANGED <<files, fileMutex, requests, exceptStore>>

\* fileMutex.Lock()
writeFile_Lock ==
  \E p \in requests :
    /\ spc[p] = "Lock"
    /\ fileMutex = 0
    /\ fileMutex' = p
    /\ spc' = [spc EXCEPT ![p] = "OpenFile"]
    /\ UNCHANGED <<files, requests, slocal, sres, lastSaved, exceptStore>>

\* fp, err2 := os.OpenFile(filename, os.O_WRONLY|os.O_CREATE, 0600)
writeFile_OpenFile ==
  \E p \in requests :
    /\ spc[p] = "OpenFile"
    /\ files' = [files EXCEPT ![slocal[p].session.ID] = OpenFile_Create(@)]
    /\ spc' = [spc EXCEPT ![p] = "Write"]
    /\ UNCHANGED <<fileMutex, requests, slocal, sres, lastSaved, exceptStore>>

\* fp.Write([]byte(encoded))
writeFile_Write ==
  \E p \in requests :
    /\ spc[p] = "Write"
    /\ files' = [files EXCEPT ![slocal[p].session.ID] = Write(@, slocal[p].encoded)]
    /\ spc' = [spc EXCEPT ![p] = "Close"]
    /\ UNCHANGED <<fileMutex, requests, slocal, sres, lastSaved, exceptStore>>

\* fp.Close(); return nil with the deferred fileMutex.Unlock(), and the rest
\* of Save.
writeFile_Close ==
  \E p \in requests :
    /\ spc[p] = "Close"
    /\ fileMutex' = 0
    /\ Save_return(p, slocal[p].session)
    /\ UNCHANGED <<files, requests, sres, exceptStore>>

\* New returns the session and err.
New_return(p, id, values, err) ==
  /\ spc' = [spc EXCEPT ![p] = "idle"]
  /\ slocal' = [slocal EXCEPT ![p] = NoStoreLocal]
  /\ sres' = [sres EXCEPT ![p] = [op |-> "New", ID |-> id, Values |-> values,
                                  err |-> err, IsNew |-> err # NoError]]

\* s.New(r, name) with the cookie of a session ID, up to
\* os.OpenFile(filename, os.O_RDONLY, 0400) in readFile.
New ==
  \E p \in requests, id \in SessionIDs :
    /\ spc[p] = "idle"
    /\ IF ~files[id].exists
       THEN New_return(p, id, << >>, "open: no such file or directory")
       ELSE /\ spc' = [spc EXCEPT ![p] = "Read"]
            /\ slocal' = [slocal EXCEPT ![p] =
                            [NoStoreLocal EXCEPT !.session = [ID |-> id, Values |-> << >>]]]
            /\ sres' = [sres EXCEPT ![p] = NoStoreResult]
    /\ UNCHANGED <<files, fileMutex, requests, lastSaved, exceptStore>>

\* n, err = fp.Read(buf[0:]); fdata = append(fdata, buf[0:n]...); the loop ends
\* at io.EOF.
readFile_Read ==
  \E p \in requests :
    /\ spc[p] = "Read"
    /\ LET data == files[slocal[p].session.ID].data
           rest == IF slocal[p].offset < Len(data) THEN Len(data) - slocal[p].offset ELSE 0
           n == IF rest < BufLen THEN rest ELSE BufLen
       IN  IF n = 0
           THEN /\ spc' = [spc EXCEPT ![p] = "DecodeMulti"]
                /\ UNCHANGED slocal
           ELSE /\ slocal' = [slocal EXCEPT
                                ![p].fdata = @ \o SubSeq(data, slocal[p].offset + 1,
                                                         slocal[p].offset + n),
                                ![p].offset = @ + n]
                /\ UNCHANGED spc
    /\ UNCHANGED <<files, fileMutex, requests, sres, lastSaved, exceptStore>>

\* securecookie.DecodeMulti(session.Name(), string(fdata), &session.Values,
\* s.Codecs...), the deferred fp.Close() and the rest of New.
readFile_DecodeMulti ==
  \E p \in requests :
    /\ spc[p] = "DecodeMulti"
    /\ LET d == DecodeMulti(slocal[p].fdata)
       IN  New_return(p, slocal[p].session.ID, d.values, d.err)
    /\ UNCHANGED <<files, fileMutex, requests, lastSaved, exceptStore>>

StoreNext ==
  \/ Save
  \/ writeFile_Lock
  \/ writeFile_OpenFile
  \/ writeFile_Write
  \/ writeFile_Close
  \/ New
  \/ readFile_Read
  \/ readFile_DecodeMulti

(***************************************************************************)
(* Query builders                                                          *)
(***************************************************************************)
BuilderKinds == {<<"Q">>}

BuilderAncestors == {ValidAncestor}

BuilderFilters ==
  { [filter |-> <<"a", " ", "=">>, value |-> IntValue],
    [filter |-> <<"b", " ", ">">>, value |-> IntValue] }

BuilderOrders == { <<"a">>, <<"-", "b">> }

QueryInit ==
  /\ queries = <<NewQuery(<<"P">>)>>
  /\ filterArrays = << >>
  /\ orderArrays = << >>
  /\ returned = <<QueryValue(NewQuery(<<"P">>), << >>, << >>)>>

QueryIdle ==
  /\ queries = << >>
  /\ filterArrays = << >>
  /\ orderArrays = << >>
  /\ returned = << >>

\* return &c: the copy becomes a Query of the program; what it holds now is
\* remembered in returned.
returnQuery(c, fArrays, oArrays) ==
  /\ queries' = Append(queries, c)
  /\ filterArrays' = fArrays
  /\ orderArrays' = oArrays
  /\ returned' = Append(returned, QueryValue(c, fArrays, oArrays))

\* q.Kind(kind)
DoKind ==
  /\ Len(queries) < MaxQueries
  /\ \E q \in 1..Len(queries), kind \in BuilderKinds :
       returnQuery([queries[q] EXCEPT !.kind = kind], filterArrays, orderArrays)
  /\ UNCHANGED exceptQuery

\* q.Ancestor(ancestor)
DoAncestor ==
  /\ Len(queries) < MaxQueries
  /\ \E q \in 1..Len(queries), ancestor \in BuilderAncestors :
       returnQuery([queries[q] EXCEPT !.ancestor = ancestor], filterArrays, orderArrays)
  /\ UNCHANGED exceptQuery

\* q.Filter(filterStr, value)
DoFilter ==
  /\ Len(queries) < MaxQueries
  /\ \E q \in 1..Len(queries), f \in BuilderFilters :
       LET a == appendSlice(filterArrays, queries[q].filter, f, ZeroFilterCell)
       IN  returnQuery([queries[q] EXCEPT !.filter = a.slice], a.arrays, orderArrays)
  /\ UNCHANGED exceptQuery

\* q.Order(order)
DoOrder ==
  /\ Len(queries) < MaxQueries
  /\ \E q \in 1..Len(queries), o \in BuilderOrders :
       LET a == appendSlice(orderArrays, queries[q].order, o, ZeroOrderCell)
       IN  returnQuery([queries[q] EXCEPT !.order = a.slice], filterArrays, a.arrays)
  /\ UNCHANGED exceptQuery

QueryNext == DoKind \/ DoAncestor \/ DoFilter \/ DoOrder

(***************************************************************************)
(* Concurrent callers of Filter and Order on one shared Query             *)
(***************************************************************************)
Callers == {1, 2}

NoLocal == [call |-> "none", arg |-> << >>, c |-> NewQuery(<< >>), target |-> 0, result |-> 0]

ConcIdle ==
  /\ base = 0
  /\ pc = [g \in Callers |-> "idle"]
  /\ local = [g \in Callers |-> NoLocal]

\* Before the Query is shared, the main goroutine builds it: Filter or Order on
\* the Query it built last.
DoBuildBase ==
  /\ base = 0
  /\ Len(queries) <= MaxBaseCalls
  /\ \/ \E f \in BuilderFilters :
          LET q == queries[Len(queries)]
              a == appendSlice(filterArrays, q.filter, f, ZeroFilterCell)
          IN  returnQuery([q EXCEPT !.filter = a.slice], a.arrays, orderArrays)
     \/ \E o \in BuilderOrders :
          LET q == queries[Len(queries)]
              a == appendSlice(orderArrays, q.order, o, ZeroOrderCell)
          IN  returnQuery([q EXCEPT !.order = a.slice], filterArrays, a.arrays)
  /\ UNCHANGED <<base, pc, local, exceptConc>>

\* The Query built last is handed to both callers; each is about to call
\* Filter(f, v) or Order(o) on it.
DoShare ==
  /\ base = 0
  /\ base' = Len(queries)
  /\ pc' = [g \in Callers |-> "start"]
  /\ \E args \in [Callers -> [call : {"Filter"}, arg : BuilderFilters]
                            \cup [call : {"Order"}, arg : BuilderOrders]] :
       local' = [g \in Callers |->
                   [NoLocal EXCEPT !.call = args[g].call, !.arg = args[g].arg]]
  /\ UNCHANGED <<queryVars, exceptConc>>

\* c := *q
DoCopy(g) ==
  /\ pc[g] = "start"
  /\ local' = [local EXCEPT ![g].c = queries[base]]
  /\ pc' = [pc EXCEPT ![g] = "append"]
  /\ UNCHANGED <<base, queryVars, exceptConc>>

\* append(c.filter, ...) / append(c.order, ...) up to the store of the new
\* element: the slice grows in the array it has, or in a newly allocated copy.
DoAppend(g) ==
  /\ pc[g] = "append"
  /\ LET isFilter == local[g].call = "Filter"
         s == IF isFilter THEN local[g].c.filter ELSE local[g].c.order
         arrays == IF isFilter THEN filterArrays ELSE orderArrays
         zero == IF isFilter THEN ZeroFilterCell ELSE ZeroOrderCell
         grown == s.len >= s.cap
         arrays2 == IF grown THEN Append(arrays, grownArray(arrays, s, zero)) ELSE arrays
         s2 == IF grown
               THEN [array |-> Len(arrays) + 1, len |-> s.len + 1,
                     cap |-> growCap(s.cap, s.len + 1)]
               ELSE [s EXCEPT !.len = s.len + 1]
     IN  /\ filterArrays' = IF isFilter THEN arrays2 ELSE filterArrays
         /\ orderArrays' = IF isFilter THEN orderArrays ELSE arrays2
         /\ local' = [local EXCEPT ![g].target = s2.array,
                                   ![g].c = IF isFilter THEN [@ EXCEPT !.filter = s2]
                                                        ELSE [@ EXCEPT !.order = s2]]
  /\ pc' = [pc EXCEPT ![g] = IF local[g].call = "Filter" THEN "storeString" ELSE "storeOrder"]
  /\ UNCHANGED <<base, queries, returned, exceptConc>>

\* The store of queryFilter{filterStr, value} into the array: first the string.
DoStoreString(g) ==
  /\ pc[g] = "storeString"
  /\ filterArrays' = [filterArrays EXCEPT
                        ![local[g].target][local[g].c.filter.len].filter = local[g].arg.filter]
  /\ pc' = [pc EXCEPT ![g] = "storeValue"]
  /\ UNCHANGED <<base, local, queries, orderArrays, returned, exceptConc>>

\* ... then the interface value.
DoStoreValue(g) ==
  /\ pc[g] = "storeValue"
  /\ filterArrays' = [filterArrays EXCEPT
                        ![local[g].target][local[g].c.filter.len].value = local[g].arg.value]
  /\ pc' = [pc EXCEPT ![g] = "return"]
  /\ UNCHANGED <<base, local, queries, orderArrays, returned, exceptConc>>

\* The store of queryOrder(order) into the array.
DoStoreOrder(g) ==
  /\ pc[g] = "storeOrder"
  /\ orderArrays' = [orderArrays EXCEPT
                       ![local[g].target][local[g].c.order.len] = local[g].arg]
  /\ pc' = [pc EXCEPT ![g] = "return"]
  /\ UNCHANGED <<base, local, queries, filterArrays, returned, exceptConc>>

\* return &c
DoReturn(g) ==
  /\ pc[g] = "return"
  /\ returnQuery(local[g].c, filterArrays, orderArrays)
  /\ local' = [local EXCEPT ![g].result = Len(queries) + 1]
  /\ pc' = [pc EXCEPT ![g] = "done"]
  /\ UNCHANGED <<base, exceptConc>>

ConcNext ==
  \/ DoBuildBase
  \/ DoShare
  \/ \E g \in Callers : DoCopy(g)
  \/ \E g \in Callers : DoAppend(g)
  \/ \E g \in Callers : DoStoreString(g)
  \/ \E g \in Callers : DoStoreValue(g)
  \/ \E g \in Callers : DoStoreOrder(g)
  \/ \E g \in Callers : DoReturn(g)

(***************************************************************************)
(* Specifications                                                          *)
(***************************************************************************)
\* Keys: valid, Equal, Encode and DecodeKey applied to every chain.
Init == KeyInit /\ FilterIdle /\ ToProtoIdle /\ QueryIdle /\ ConcIdle /\ OrderIdle /\ OptionsIdle /\ OptBuildIdle /\ BatchIdle /\ StoreIdle

Next == KeyNext

Spec == Init /\ [][Next]_vars

\* queryFilter.parse and queryFilter.toProto applied to every filter text.
FilterSpecInit == FilterInit /\ KeyIdle /\ ToProtoIdle /\ QueryIdle /\ ConcIdle /\ OrderIdle /\ OptionsIdle /\ OptBuildIdle /\ BatchIdle /\ StoreIdle

FilterSpecNext == FilterNext

FilterSpec == FilterSpecInit /\ [][FilterSpecNext]_vars

\* Query.toProto applied to queries of every shape.
ToProtoSpecInit == ToProtoInit /\ KeyIdle /\ FilterIdle /\ QueryIdle /\ ConcIdle /\ OrderIdle /\ OptionsIdle /\ OptBuildIdle /\ BatchIdle /\ StoreIdle

ToProtoSpecNext == ToProtoNext

ToProtoSpec == ToProtoSpecInit /\ [][ToProtoSpecNext]_vars

\* The builders Kind, Ancestor, Filter and Order applied, in any order, to any
\* Query built so far.
QuerySpecInit == QueryInit /\ KeyIdle /\ FilterIdle /\ ToProtoIdle /\ ConcIdle /\ OrderIdle /\ OptionsIdle /\ OptBuildIdle /\ BatchIdle /\ StoreIdle

QuerySpecNext == QueryNext

QuerySpec == QuerySpecInit /\ [][QuerySpecNext]_vars

\* One Query is built, then shared by two goroutines that each call Filter or
\* Order on it; their steps interleave in every way.
ConcSpecInit == QueryInit /\ ConcIdle /\ KeyIdle /\ FilterIdle /\ ToProtoIdle /\ OrderIdle /\ OptionsIdle /\ OptBuildIdle /\ BatchIdle /\ StoreIdle

ConcSpecNext == ConcNext

ConcSpec == ConcSpecInit /\ [][ConcSpecNext]_vars

\* queryOrder.toProto and queryOrder.String applied to every order text.
OrderSpecInit == OrderInit /\ KeyIdle /\ FilterIdle /\ ToProtoIdle /\ QueryIdle /\ ConcIdle /\ OptionsIdle /\ OptBuildIdle /\ BatchIdle /\ StoreIdle

OrderSpecNext == OrderNext

OrderSpec == OrderSpecInit /\ [][OrderSpecNext]_vars

\* Requests: Query.toProto and QueryOptions.toProto applied, in either order,
\* to the Query and the QueryOptions of a request.
OptionsSpecInit ==
  OptionsInit /\ KeyIdle /\ FilterIdle /\ QueryIdle /\ ConcIdle /\ OrderIdle /\ OptBuildIdle /\ BatchIdle /\ StoreIdle

OptionsSpecNext == OptionsNext

OptionsSpec == OptionsSpecInit /\ [][OptionsSpecNext]_vars

\* The builders Limit, Offset, KeysOnly, Compile and Cursor applied, in any
\* order, to any QueryOptions built so far.
OptBuildSpecInit ==
  OptBuildInit /\ KeyIdle /\ FilterIdle /\ ToProtoIdle /\ QueryIdle /\ ConcIdle /\ OrderIdle /\ OptionsIdle /\ BatchIdle /\ StoreIdle

OptBuildSpecNext == OptBuildNext

OptBuildSpec == OptBuildSpecInit /\ [][OptBuildSpecNext]_vars

\* DecodeKey applied to every encoded key with one character altered.
CorruptSpecInit ==
  KeyInit /\ FilterIdle /\ ToProtoIdle /\ QueryIdle /\ ConcIdle /\ OrderIdle /\ OptionsIdle /\ OptBuildIdle /\ BatchIdle /\ StoreIdle

CorruptSpecNext == DoDecodeCorrupted

CorruptSpec == CorruptSpecInit /\ [][CorruptSpecNext]_vars

\* MarshalJSON applied to every key, and UnmarshalJSON with every key as the
\* receiver.
JSONSpecInit ==
  KeyInit /\ FilterIdle /\ ToProtoIdle /\ QueryIdle /\ ConcIdle /\ OrderIdle /\ OptionsIdle /\ OptBuildIdle /\ BatchIdle /\ StoreIdle

JSONSpecNext == DoMarshalJSON \/ DoUnmarshalJSON

JSONSpec == JSONSpecInit /\ [][JSONSpecNext]_vars

\* NewNamespaceKey called with every chain, and nil, as the parent.
NewKeySpecInit ==
  KeyInit /\ FilterIdle /\ ToProtoIdle /\ QueryIdle /\ ConcIdle /\ OrderIdle /\ OptionsIdle /\ OptBuildIdle /\ BatchIdle /\ StoreIdle

NewKeySpecNext == DoNewNamespaceKey

NewKeySpec == NewKeySpecInit /\ [][NewKeySpecNext]_vars

\* The conversions between keys and wire references applied to every chain.
WireSpecInit ==
  KeyInit /\ FilterIdle /\ ToProtoIdle /\ QueryIdle /\ ConcIdle /\ OrderIdle /\ OptionsIdle /\ OptBuildIdle /\ BatchIdle /\ StoreIdle

WireSpecNext == DoKeyToProto \/ DoProtoToKey \/ DoReferenceValueToKey \/ DoDecodeKey

WireSpec == WireSpecInit /\ [][WireSpecNext]_vars

\* multiValid applied to every batch of sample keys.
BatchSpecInit ==
  BatchInit /\ KeyIdle /\ FilterIdle /\ ToProtoIdle /\ QueryIdle /\ ConcIdle /\ OrderIdle /\ OptionsIdle /\ OptBuildIdle /\ StoreIdle

BatchSpecNext == DoMultiValid

BatchSpec == BatchSpecInit /\ [][BatchSpecNext]_vars

\* One request after the other uses the filesystem session store.
StoreSpecInit ==
  StoreInit /\ requests = {1} /\ KeyIdle /\ FilterIdle /\ ToProtoIdle /\ QueryIdle /\ ConcIdle /\ OrderIdle /\ OptionsIdle /\ OptBuildIdle /\ BatchIdle

StoreSpecNext == StoreNext

StoreSpec == StoreSpecInit /\ [][StoreSpecNext]_vars

\* Several requests use the filesystem session store at a time.
StoreConcSpecInit ==
  StoreInit /\ requests = StoreProcs /\ KeyIdle /\ FilterIdle /\ ToProtoIdle /\ QueryIdle /\ ConcIdle /\ OrderIdle /\ OptionsIdle /\ OptBuildIdle /\ BatchIdle

StoreConcSpecNext == StoreNext

StoreConcSpec == StoreConcSpecInit /\ [][StoreConcSpecNext]_vars

(***************************************************************************)
(* Properties of keys                                                      *)
(***************************************************************************)
\* Same length and, level by level, the same five fields.
SameChain(a, b) ==
  /\ Len(a) = Len(b)
  /\ \A i \in 1..Len(a) :
       /\ a[i].kind = b[i].kind
       /\ a[i].stringID = b[i].stringID
       /\ a[i].intID = b[i].intID
       /\ a[i].appID = b[i].appID
       /\ a[i].namespace = b[i].namespace

NodeComplete(n) == n.stringID # << >> \/ n.intID # 0

\* C1: for every valid key with at least one level (also one whose leaf is
\* incomplete), DecodeKey(k.Encode()) returns no error and a key with the same
\* chain length and the same kind, stringID, intID, appID and namespace at
\* every level.
C1_RoundTrip ==
  (kres.op = "DecodeKey" /\ valid(key)) =>
    (kres.err = NoError /\ SameChain(kres.key, key))

\* A valid two-level key with a namespace and an incomplete leaf was encoded and
\* decoded.
C1_Witness ==
  /\ kres.op = "DecodeKey"
  /\ valid(key)
  /\ Len(key) = 2
  /\ ~NodeComplete(key[1])
  /\ key[1].namespace # << >>
  /\ kres.err = NoError

\* C4: valid() is true exactly when the key is non-nil and every node has a
\* kind and an appID, not both ids, and a parent (if any) that is complete and
\* has the node's appID and namespace; so an incomplete ancestor makes the chain
\* invalid.
C4_ValidExactly ==
  kres.op = "valid" =>
    /\ kres.ret <=>
         /\ key # NilKey
         /\ \A i \in 1..Len(key) :
              /\ key[i].kind # << >>
              /\ key[i].appID # << >>
              /\ ~(key[i].stringID # << >> /\ key[i].intID # 0)
              /\ i < Len(key) =>
                   /\ NodeComplete(key[i + 1])
                   /\ key[i + 1].appID = key[i].appID
                   /\ key[i + 1].namespace = key[i].namespace
    /\ (\E i \in 2..Len(key) : ~NodeComplete(key[i])) => ~kres.ret

\* valid() returned true for a two-level chain whose only incomplete node is the
\* leaf.
C4_Witness ==
  /\ kres.op = "valid"
  /\ kres.ret
  /\ Len(key) = 2
  /\ ~NodeComplete(key[1])
  /\ NodeComplete(key[2])

\* C5: Equal is true exactly when both chains have the same length and the same
\* kind, stringID, intID, appID and namespace at every level; two nil keys are
\* equal, and keys that differ only in appID are unequal.
C5_EqualExactly ==
  kres.op = "Equal" =>
    /\ kres.ret <=> SameChain(key, kres.other)
    /\ (key = NilKey /\ kres.other = NilKey) => kres.ret
    /\ Len(key) # Len(kres.other) => ~kres.ret

\* Equal returned false for two two-level keys that differ only in the appID of
\* the root.
C5_Witness ==
  /\ kres.op = "Equal"
  /\ ~kres.ret
  /\ Len(key) = 2
  /\ Len(kres.other) = 2
  /\ key[1] = kres.other[1]
  /\ key[2].appID # kres.other[2].appID
  /\ [key[2] EXCEPT !.appID = << >>] = [kres.other[2] EXCEPT !.appID = << >>]

(***************************************************************************)
(* Properties of the filter mini-language                                 *)
(***************************************************************************)
\* t is s without its leading and trailing white space.
IsTrimOf(t, s) ==
  \E i \in 1..(Len(s) + 1), j \in 0..Len(s) :
    /\ t = SubSeq(s, i, j)
    /\ \A n \in 1..(i - 1) : s[n] \in WhiteSpace
    /\ \A n \in (j + 1)..Len(s) : s[n] \in WhiteSpace
    /\ t # << >> => (t[1] \notin WhiteSpace /\ t[Len(t)] \notin WhiteSpace)

SubStrings(s) == {SubSeq(s, i, j) : i \in 1..(Len(s) + 1), j \in 0..Len(s)}

\* s has sub as a contiguous part.
Contains(s, sub) ==
  \E i \in 1..(Len(s) + 1 - Len(sub)) : SubSeq(s, i, i + Len(sub) - 1) = sub

FiveOperators == { <<"<">>, <<"<", "=">>, <<"=">>, <<">", "=">>, <<">">> }

WireOperator(operator) ==
  CASE operator = <<"<">> -> "LESS_THAN"
    [] operator = <<"<", "=">> -> "LESS_THAN_OR_EQUAL"
    [] operator = <<"=">> -> "EQUAL"
    [] operator = <<">", "=">> -> "GREATER_THAN_OR_EQUAL"
    [] operator = <<">">> -> "GREATER_THAN"

\* C9: queryFilter.toProto succeeds only with one of the five operators and then
\* emits the matching wire operator; every other filter text that parses,
\* including one with no operator and ones using != or IN, fails with the
\* invalid-operator error naming the operator and the original filter text.
C9_OnlyFiveOperators ==
  fres.op = "toProto" =>
    LET p == queryFilter_parse(filt)
    IN  /\ fres.err = NilError =>
             /\ p.operator \in FiveOperators
             /\ fres.dst.Op = Some(WireOperator(p.operator))
        /\ ( /\ p.err = NilError
             /\ \/ p.operator \notin FiveOperators
                \/ Contains(filt.filter, <<"!", "=">>)
                \/ Contains(filt.filter, <<"I", "N">>) ) =>
             /\ fres.err.format = "datastore: invalid operator %q in filter %q"
             /\ fres.err.args[2] = filt.filter

\* C10: parse trims the text, takes as property what is left after removing the
\* trailing run of '>', '<', '=' and space, and as operator the trimmed rest; it
\* fails exactly when the trimmed text or the property is empty, and otherwise
\* property followed by the removed suffix is the trimmed text.
C10_ParseSplits ==
  fres.op = "parse" =>
    LET t == CHOOSE x \in SubStrings(filt.filter) : IsTrimOf(x, filt.filter)
        n == CHOOSE m \in 0..Len(t) :
               /\ m > 0 => t[m] \notin {">", "<", "=", " "}
               /\ \A i \in (m + 1)..Len(t) : t[i] \in {">", "<", "=", " "}
        removed == SubSeq(t, n + 1, Len(t))
    IN  /\ fres.err # NilError <=> (t = << >> \/ n = 0)
        /\ fres.err = NilError =>
             /\ fres.property = SubSeq(t, 1, n)
             /\ IsTrimOf(fres.operator, removed)
             /\ fres.property \o removed = t

\* " a >" was parsed into property "a" and operator ">".
C10_Witness ==
  /\ fres.op = "parse"
  /\ filt.filter = <<" ", "a", " ", ">">>
  /\ fres.err = NilError
  /\ fres.property = <<"a">>
  /\ fres.operator = <<">">>

(***************************************************************************)
(* Properties of Query.toProto                                            *)
(***************************************************************************)
FailingFilters(q) ==
  {i \in 1..Len(q.filter) : queryFilter_toProto(q.filter[i]).err # NilError}

FailingOrders(q) ==
  {i \in 1..Len(q.order) : queryOrder_toProto(q.order[i]).err # NilError}

\* C6: toProto returns nil exactly when the kind is non-empty and every filter
\* and order converts; otherwise the ErrMulti holds one error per fault, in the
\* order kind, filters, orders.
C6_AllFaultsReported ==
  tres.op = "toProto" =>
    LET kindFault == IF tq.kind = << >> THEN 1 ELSE 0
        badF == FailingFilters(tq)
        badO == FailingOrders(tq)
        errs == tres.err.errs
    IN  /\ tres.err.isNil <=> (kindFault = 0 /\ badF = {} /\ badO = {})
        /\ Len(errs) = kindFault + Cardinality(badF) + Cardinality(badO)
        /\ kindFault = 1 => errs[1].format = "datastore: empty query kind"
        /\ \A i \in badF :
             errs[kindFault + Cardinality({j \in badF : j <= i})]
               = queryFilter_toProto(tq.filter[i]).err
        /\ \A i \in badO :
             errs[kindFault + Cardinality(badF) + Cardinality({j \in badO : j <= i})]
               = queryOrder_toProto(tq.order[i]).err

\* A query with no kind, two failing filters and a failing order after a good
\* one gave four errors.
C6_Witness ==
  /\ tres.op = "toProto"
  /\ tq.kind = << >>
  /\ Cardinality(FailingFilters(tq)) = 2
  /\ FailingOrders(tq) = {2}
  /\ Len(tres.err.errs) = 4

\* C7: when toProto reports an error, dst holds no element for a filter or order
\* that failed to convert, and no partially applied wire value at all.
C7_OmitsFailedElements ==
  (tres.op = "toProto" /\ ~tres.err.isNil) =>
    /\ Len(tres.dst.Filter) = Len(tq.filter) - Cardinality(FailingFilters(tq))
    /\ Len(tres.dst.Order) = Len(tq.order) - Cardinality(FailingOrders(tq))
    /\ \A i \in 1..Len(tres.dst.Filter) :
         tres.dst.Filter[i].Op # Unset /\ tres.dst.Filter[i].Property # << >>
    /\ \A i \in 1..Len(tres.dst.Order) : tres.dst.Order[i].Property # Unset
    /\ tres.dst = ZeroQuery

\* C8: converting an invalid key to wire form always fails with a structural
\* key error, also when the key is the ancestor of the query being converted.
C8_InvalidAncestorFails ==
  (tres.op = "toProto" /\ tq.ancestor # NilKey /\ ~valid(tq.ancestor)) =>
    /\ ~tres.err.isNil
    /\ \E i \in 1..Len(tres.err.errs) : tres.err.errs[i].format = ErrInvalidKey

(***************************************************************************)
(* Properties of the Query builders                                        *)
(***************************************************************************)
\* C2: after any sequence of Kind, Ancestor, Filter and Order calls, every Query
\* returned earlier still has the kind, ancestor, filter list and order list it
\* had when it was returned.
C2_ReturnedQueriesUnchanged ==
  \A i \in 1..Len(queries) :
    QueryValue(queries[i], filterArrays, orderArrays) = returned[i]

\* What caller g's result has to hold: what the shared Query held, followed by
\* the caller's own new element.
ExpectedResult(g) ==
  IF local[g].call = "Filter"
  THEN [returned[base] EXCEPT !.filter = Append(@, local[g].arg)]
  ELSE [returned[base] EXCEPT !.order = Append(@, local[g].arg)]

Storing(g) == pc[g] \in {"storeString", "storeValue", "storeOrder"}

StoreCell(g) ==
  <<local[g].call, local[g].target,
    IF local[g].call = "Filter" THEN local[g].c.filter.len ELSE local[g].c.order.len>>

\* C3: two concurrent callers of Filter (or Order) on one shared Query never
\* write to the same storage; when both have returned, each result holds the
\* shared Query's elements followed by the caller's own, and the shared Query is
\* unchanged.
C3_ConcurrentCallersDisjoint ==
  /\ \A g, h \in Callers :
       (g # h /\ Storing(g) /\ Storing(h)) => StoreCell(g) # StoreCell(h)
  /\ (\A g \in Callers : pc[g] = "done") =>
       /\ \A g \in Callers :
            QueryValue(queries[local[g].result], filterArrays, orderArrays)
              = ExpectedResult(g)
       /\ QueryValue(queries[base], filterArrays, orderArrays) = returned[base]

(***************************************************************************)
(* Properties of queryOrder                                                *)
(***************************************************************************)
\* The text without its leading and trailing white space.
TrimOf(s) == CHOOSE x \in SubStrings(s) : IsTrimOf(x, s)

\* C11: queryOrder.toProto fails exactly when the property is empty after
\* trimming, stripping one optional leading '-' and trimming again; otherwise
\* it emits that property with direction DESCENDING if the trimmed text began
\* with '-' and ASCENDING if not, and the direction is never unset.
C11_OrderToProto ==
  ores.op = "toProto" =>
    LET t == TrimOf(ord)
        desc == t # << >> /\ t[1] = "-"
        prop == IF desc THEN TrimOf(Tail(t)) ELSE t
    IN  /\ ores.err # NilError <=> prop = << >>
        /\ ores.err # NilError => ores.err.format = "datastore: empty query order property"
        /\ ores.err = NilError =>
             /\ ores.dst.Property = <<prop>>
             /\ ores.dst.Direction = <<IF desc THEN "DESCENDING" ELSE "ASCENDING">>
             /\ ores.dst.Direction # Unset

\* " - a" was converted to property "a", descending.
C11_Witness ==
  /\ ores.op = "toProto"
  /\ ord = <<" ", "-", " ", "a">>
  /\ ores.err = NilError
  /\ ores.dst = [Property |-> <<<<"a">>>>, Direction |-> <<"DESCENDING">>]

(***************************************************************************)
(* Properties of QueryOptions.toProto                                      *)
(***************************************************************************)
\* The errors of an ErrMulti that name the field.
ErrorsNaming(err, name) ==
  IF err.isNil THEN {}
  ELSE {i \in 1..Len(err.errs) : err.errs[i].args = <<name>>}

\* 0 <= v <= 2^31-1
InRange(v) == ~IntLess(v, GoInt(0)) /\ ~IntLess(GoInt(2147483647), v)

\* C12: QueryOptions.toProto writes limit (offset) to the wire query exactly when
\* 0 <= v <= 2^31-1, then with the value v; a rejected field is left unset and
\* contributes exactly one error naming it, an accepted field none, whatever the
\* other field is.
C12_LimitOffsetIndependent ==
  optres.op = "toProto" =>
    /\ optres.dst.Limit = (IF InRange(opts.limit) THEN <<opts.limit.lo>> ELSE Unset)
    /\ optres.dst.Offset = (IF InRange(opts.offset) THEN <<opts.offset.lo>> ELSE Unset)
    /\ Cardinality(ErrorsNaming(optres.err, "limit")) = (IF InRange(opts.limit) THEN 0 ELSE 1)
    /\ Cardinality(ErrorsNaming(optres.err, "offset")) = (IF InRange(opts.offset) THEN 0 ELSE 1)
    /\ optres.err.isNil <=> (InRange(opts.limit) /\ InRange(opts.offset))
    /\ ~optres.err.isNil =>
         Len(optres.err.errs) = Cardinality(ErrorsNaming(optres.err, "limit"))
                                  + Cardinality(ErrorsNaming(optres.err, "offset"))

\* Limit 2^31 was rejected and left unset while offset 2^31-1 was written.
C12_Witness ==
  /\ optres.op = "toProto"
  /\ opts.limit = OverInt(0)
  /\ opts.offset = GoInt(2147483647)
  /\ optres.dst.Limit = Unset
  /\ optres.dst.Offset = <<2147483647>>
  /\ Len(optres.err.errs) = 1

\* C13: QueryOptions.toProto always writes KeysOnly and Compile with the
\* option's values, also when limit or offset is rejected, and writes
\* CompiledCursor (EndCompiledCursor) exactly when the start (end) cursor is
\* present, with that cursor's compiled cursor.
C13_BoolsAndCursors ==
  optres.op = "toProto" =>
    /\ optres.dst.KeysOnly = <<opts.keysOnly>>
    /\ optres.dst.Compile = <<opts.compile>>
    /\ optres.dst.CompiledCursor # Unset <=> opts.startCursor # NilCursor
    /\ optres.dst.EndCompiledCursor # Unset <=> opts.endCursor # NilCursor
    /\ opts.startCursor # NilCursor =>
         optres.dst.CompiledCursor = opts.startCursor.compiledCursor
    /\ opts.endCursor # NilCursor =>
         optres.dst.EndCompiledCursor = opts.endCursor.compiledCursor

\* Options with a rejected limit, keysOnly set, a start cursor and no end cursor
\* were converted.
C13_Witness ==
  /\ optres.op = "toProto"
  /\ opts.limit = GoInt(-1)
  /\ opts.keysOnly
  /\ ~opts.compile
  /\ opts.startCursor # NilCursor
  /\ opts.endCursor = NilCursor
  /\ ~optres.err.isNil
  /\ optres.dst.KeysOnly = <<TRUE>>
  /\ optres.dst.CompiledCursor = <<"cursor 1">>

\* Both conversions of a request whose Query has the one filter "" and whose
\* options have limit -1 and a valid offset have run.
EmptyFilterAndNegativeLimit ==
  /\ tres.op = "toProto"
  /\ optres.op = "toProto"
  /\ tq.filter = <<[filter |-> << >>, value |-> IntValue]>>
  /\ opts.limit = GoInt(-1)
  /\ InRange(opts.offset)

\* C15 as stated: with filter "" and limit -1 in one request, the filter is
\* reported with the empty-property error and the limit with a range error, two
\* errors in all.
C15_EmptyPropertyAndRange ==
  EmptyFilterAndNegativeLimit =>
    /\ ~tres.err.isNil
    /\ tres.err.errs = <<Error("datastore: empty query filter property", << >>)>>
    /\ ~optres.err.isNil
    /\ optres.err.errs = <<Error("datastore: negative value for ", <<"limit">>)>>

\* C15, amended: with filter "" and limit -1 in one request, Query.toProto reports
\* the filter with the invalid-query-filter error (the empty-property error is
\* for a filter with operator characters only) and QueryOptions.toProto reports
\* the limit with the negative-value error: one error in each ErrMulti, two in
\* all, whichever conversion runs first.
C15_InvalidFilterAndRange ==
  EmptyFilterAndNegativeLimit =>
    /\ ~tres.err.isNil
    /\ tres.err.errs = <<Error("datastore: invalid query filter: ", << << >> >>)>>
    /\ ~optres.err.isNil
    /\ optres.err.errs = <<Error("datastore: negative value for ", <<"limit">>)>>
    /\ Len(tres.err.errs) + Len(optres.err.errs) = 2

\* Both conversions of such a request have run and each returned an error.
C15_Witness ==
  /\ EmptyFilterAndNegativeLimit
  /\ ~tres.err.isNil
  /\ ~optres.err.isNil
  /\ opts.offset = GoInt(0)

(***************************************************************************)
(* Properties of the QueryOptions builders                                 *)
(***************************************************************************)
\* The field a builder sets.
FieldOf(call) ==
  CASE call = "Limit" -> "limit"
    [] call = "Offset" -> "offset"
    [] call = "KeysOnly" -> "keysOnly"
    [] call = "Compile" -> "compile"
    [] call = "Cursor" -> "startCursor"

\* C14: after any sequence of builder calls every QueryOptions value, receivers
\* included, still holds what it held when it was returned, and each value
\* built by Limit, Offset, KeysOnly, Compile or Cursor holds the argument in the
\* field the builder sets and its receiver's values in all other fields.
C14_OptionsBuildersCopy ==
  /\ Len(options) = Len(optReturned)
  /\ \A i \in 1..Len(options) :
       /\ options[i] = optReturned[i].value
       /\ optReturned[i].from # 0 =>
            LET r == optReturned[i]
            IN  /\ options[i][FieldOf(r.call)] = r.arg
                /\ \A f \in DOMAIN options[i] \ {FieldOf(r.call)} :
                     options[i][f] = options[r.from][f]

\* Limit and Cursor were both called on the first value, which still has limit
\* 0 and no cursor, and KeysOnly on the result of Limit.
C14_Witness ==
  /\ Len(options) = 4
  /\ optReturned[2].call = "Limit" /\ optReturned[2].from = 1
  /\ optReturned[3].call = "Cursor" /\ optReturned[3].from = 1
  /\ optReturned[3].arg # NilCursor
  /\ optReturned[4].call = "KeysOnly" /\ optReturned[4].from = 2
  /\ optReturned[4].arg = TRUE
  /\ options[1] = NewQueryOptions(GoInt(0), GoInt(0))
  /\ options[2].limit = GoInt(-1)

(***************************************************************************)
(* Properties of Query.String                                              *)
(***************************************************************************)
\* The terms joined by the separator.
RECURSIVE Join(_, _)
Join(terms, sep) ==
  IF terms = << >> THEN << >>
  ELSE IF Len(terms) = 1 THEN terms[1]
  ELSE terms[1] \o sep \o Join(Tail(terms), sep)

\* A filter as property, operator and value with nothing in between.
FilterTerm(f) ==
  LET t == TrimOf(f.filter)
      n == CHOOSE m \in 0..Len(t) :
             /\ m > 0 => t[m] \notin {">", "<", "=", " "}
             /\ \A i \in (m + 1)..Len(t) : t[i] \in {">", "<", "=", " "}
  IN  SubSeq(t, 1, n) \o TrimOf(SubSeq(t, n + 1, Len(t))) \o <<"1", "8">>

\* An order as its property and ASC or DESC.
OrderTerm(o) ==
  LET t == TrimOf(o)
  IN  IF t # << >> /\ t[1] = "-"
      THEN TrimOf(Tail(t)) \o <<" ", "D", "E", "S", "C">>
      ELSE t \o <<" ", "A", "S", "C">>

\* `SELECT * FROM Person WHERE age>=18 ORDER BY age DESC`
PersonDisplay ==
  <<"S", "E", "L", "E", "C", "T", " ", "*", " ", "F", "R", "O", "M", " ",
    "P", "e", "r", "s", "o", "n", " ", "W", "H", "E", "R", "E", " ",
    "a", "g", "e", ">", "=", "1", "8", " ", "O", "R", "D", "E", "R", " ", "B", "Y", " ",
    "a", "g", "e", " ", "D", "E", "S", "C">>

\* C16: Query.String() is `SELECT *`, ` FROM <kind>` when the kind is set, one
\* WHERE clause with the ancestor term (if any) and every filter joined by AND,
\* and ` ORDER BY` with the orders joined by commas, absent clauses omitted;
\* each filter is property and operator directly followed by the value, so the
\* Person query gives `SELECT * FROM Person WHERE age>=18 ORDER BY age DESC`.
C16_DisplayString ==
  (tres.op = "String" /\ \A i \in 1..Len(tq.filter) : tq.filter[i].value = IntValue) =>
    /\ tres.text =
         <<"S", "E", "L", "E", "C", "T", " ", "*">>
           \o (IF tq.kind # << >> THEN <<" ", "F", "R", "O", "M", " ">> \o tq.kind ELSE << >>)
           \o (IF tq.ancestor # NilKey \/ tq.filter # << >>
               THEN <<" ", "W", "H", "E", "R", "E", " ">>
                      \o Join((IF tq.ancestor # NilKey
                               THEN << <<"A", "N", "C", "E", "S", "T", "O", "R", " ", "I", "S",
                                         " ", "K", "E", "Y", "(", "'">>
                                         \o Encode(tq.ancestor) \o <<"'", ")">> >>
                               ELSE << >>)
                                \o [i \in 1..Len(tq.filter) |-> FilterTerm(tq.filter[i])],
                              <<" ", "A", "N", "D", " ">>)
               ELSE << >>)
           \o (IF tq.order # << >>
               THEN <<" ", "O", "R", "D", "E", "R", " ", "B", "Y", " ">>
                      \o Join([i \in 1..Len(tq.order) |-> OrderTerm(tq.order[i])], <<",", " ">>)
               ELSE << >>)
    /\ tq = PersonQuery => tres.text = PersonDisplay

(***************************************************************************)
(* Properties of Key.String                                                *)
(***************************************************************************)
\* `/kind,id` of a node, id being the stringID if there is one.
NodeText(n) ==
  <<"/">> \o n.kind \o <<",">>
    \o (IF n.stringID # << >> THEN n.stringID
        ELSE IF n.intID = 0 THEN <<"0">> ELSE <<"3", "0", "0">>)

\* The nodes' texts from the root down to the leaf.
RECURSIVE RootFirst(_)
RootFirst(k) ==
  IF k = << >> THEN << >> ELSE RootFirst(Tail(k)) \o NodeText(k[1])

\* C17: Key.String() of a non-nil key is the namespace, once, followed
\* root-first by `/kind,id` for every node, id being the stringID when it is
\* non-empty and the decimal intID otherwise; a nil key gives "".
C17_StringRootFirst ==
  kres.op \in {"String", "dev String"} =>
    kres.text = (IF key = NilKey THEN << >>
                 ELSE key[Len(key)].namespace \o RootFirst(key))

(***************************************************************************)
(* Properties of DecodeKey on altered texts                                *)
(***************************************************************************)
\* C18: for every text produced by Encode, DecodeKey of the text with any one
\* character altered returns an error, never a key.
C18_CorruptedTextFails ==
  kres.op = "DecodeKey corrupted" => (kres.err # NoError /\ kres.key = NilKey)

(***************************************************************************)
(* Properties of Key.MarshalJSON / Key.UnmarshalJSON                       *)
(***************************************************************************)
\* C19: MarshalJSON(k) is k.Encode() in double quotes; UnmarshalJSON accepts
\* exactly the inputs of length >= 2 that start and end with a double quote and
\* whose inner text DecodeKey accepts; on every other input it returns an error
\* and leaves the receiver unchanged, and on success the receiver equals the
\* decoded key.
C19_JSONWrapsEncode ==
  /\ kres.op = "MarshalJSON" => kres.text = <<"\"">> \o Encode(key) \o <<"\"">>
  /\ kres.op = "UnmarshalJSON" =>
       LET buf == kres.text
           inQuotes == Len(buf) >= 2 /\ buf[1] = "\"" /\ buf[Len(buf)] = "\""
           d == DecodeKey(SubSeq(buf, 2, Len(buf) - 1))
           accepted == inQuotes /\ d.err = NoError
       IN  /\ kres.err = NoError <=> accepted
           /\ ~accepted =>
                /\ kres.err \in {"datastore: bad JSON key", d.err}
                /\ kres.key = key
           /\ accepted => kres.key = d.key

(***************************************************************************)
(* Properties of NewNamespaceKey                                           *)
(***************************************************************************)
\* C20: NewNamespaceKey with an empty namespace and a non-nil parent returns a
\* key with the parent's namespace, with a non-empty namespace a key with that
\* namespace; either way kind, stringID, intID and parent are stored as given,
\* whether or not they make a valid key.
C20_NamespaceFromParent ==
  kres.op = "NewNamespaceKey" =>
    /\ kres.key # NilKey
    /\ (kres.args.namespace = << >> /\ key # NilKey) =>
         kres.key[1].namespace = key[1].namespace
    /\ kres.args.namespace # << >> => kres.key[1].namespace = kres.args.namespace
    /\ kres.key[1].kind = kres.args.kind
    /\ kres.key[1].stringID = kres.args.stringID
    /\ kres.key[1].intID = kres.args.intID
    /\ Tail(kres.key) = key

(***************************************************************************)
(* Properties of keyToProto, protoToKey and multiValid                     *)
(***************************************************************************)
\* C21: keyToProto of a chain of n nodes emits n path elements, root first and
\* leaf last, each with its node's kind and with the name when stringID is
\* non-empty, else the id when intID is non-zero, else neither, never both; App
\* is the leaf's appID and NameSpace is absent exactly when the leaf's
\* namespace is empty.
C21_PathRootToLeaf ==
  kres.op = "keyToProto" =>
    LET e == kres.ref.Path.Element
        n == Len(key)
    IN  /\ Len(e) = n
        /\ \A j \in 1..n :
             LET node == key[n + 1 - j]
             IN  /\ e[j].Type = <<node.kind>>
                 /\ e[j].Name = (IF node.stringID # << >> THEN <<node.stringID>> ELSE << >>)
                 /\ e[j].Id = (IF node.stringID = << >> /\ node.intID # 0
                               THEN <<node.intID>> ELSE << >>)
                 /\ ~(e[j].Name # << >> /\ e[j].Id # << >>)
        /\ kres.ref.App = <<key[1].appID>>
        /\ kres.ref.NameSpace = << >> <=> key[1].namespace = << >>
        /\ key[1].namespace # << >> => kres.ref.NameSpace = <<key[1].namespace>>

\* A two-level key whose root has both ids and whose leaf is incomplete and has
\* a namespace was converted.
C21_Witness ==
  /\ kres.op = "keyToProto"
  /\ Len(key) = 2
  /\ key[2].stringID # << >> /\ key[2].intID # 0
  /\ key[1].stringID = << >> /\ key[1].intID = 0
  /\ key[1].namespace # << >>
  /\ key[1].kind # key[2].kind
  /\ kres.ref.Path.Element[1].Name # << >>
  /\ kres.ref.Path.Element[2] = [Type |-> <<key[1].kind>>, Name |-> << >>, Id |-> << >>]

\* The element has no kind, or a name and an id, or is incomplete without being
\* the last one.
BadPathElement(es, j) ==
  \/ GetString(es[j].Type) = << >>
  \/ (GetString(es[j].Name) # << >> /\ GetInt64(es[j].Id) # 0)
  \/ (j < Len(es) /\ GetString(es[j].Name) = << >> /\ GetInt64(es[j].Id) = 0)

\* C22: protoToKey (and referenceValueToKey) build the chain root-first, the last
\* element becoming the leaf and each earlier one the parent of the next, and
\* check valid() on each node as it is built: at the first invalid node they
\* return ErrInvalidKey and a nil key, so a path with an element lacking a kind,
\* with both name and id, or with an incomplete non-last element is rejected.
C22_ProtoToKeyValidates ==
  kres.op \in {"protoToKey", "referenceValueToKey"} =>
    LET es == kres.ref.Path.Element
        n == Len(es)
        rejected == (n > 0 /\ GetString(kres.ref.App) = << >>)
                      \/ \E j \in 1..n : BadPathElement(es, j)
    IN  /\ (\E j \in 1..n : BadPathElement(es, j)) => kres.err = ErrInvalidKey
        /\ kres.err = ErrInvalidKey <=> rejected
        /\ kres.err # NoError => (kres.err = ErrInvalidKey /\ kres.key = NilKey)
        /\ kres.err = NoError =>
             /\ Len(kres.key) = n
             /\ \A j \in 1..n :
                  kres.key[n + 1 - j] =
                    [kind |-> GetString(es[j].Type), stringID |-> GetString(es[j].Name),
                     intID |-> GetInt64(es[j].Id), appID |-> GetString(kres.ref.App),
                     namespace |-> GetString(kres.ref.NameSpace)]

\* A path whose first element is incomplete and whose last element is valid
\* was rejected.
C22_Witness ==
  /\ kres.op = "protoToKey"
  /\ Len(kres.ref.Path.Element) = 2
  /\ kres.ref.App # << >>
  /\ kres.ref.Path.Element[1] = [Type |-> <<<<"K">>>>, Name |-> << >>, Id |-> << >>]
  /\ kres.ref.Path.Element[2] = [Type |-> <<<<"K">>>>, Name |-> <<<<"n">>>>, Id |-> << >>]
  /\ kres.err = ErrInvalidKey
  /\ kres.key = NilKey

\* C23: multiValid returns nil exactly when every key of the batch is valid;
\* otherwise it returns an ErrMulti with one slot per key, in input order, slot
\* i holding ErrInvalidKey exactly when key i is invalid and nothing when key i
\* is valid.
C23_MultiValidSlots ==
  bres.op = "multiValid" =>
    /\ bres.err.isNil <=> \A i \in 1..Len(batch) : valid(batch[i])
    /\ ~bres.err.isNil =>
         /\ Len(bres.err.errs) = Len(batch)
         /\ \A i \in 1..Len(batch) :
              /\ bres.err.errs[i] = ErrInvalidKey <=> ~valid(batch[i])
              /\ valid(batch[i]) => bres.err.errs[i] = NoError

\* A batch of a valid, an invalid and a valid key gave an ErrMulti whose second
\* slot only is set.
C23_Witness ==
  /\ bres.op = "multiValid"
  /\ Len(batch) = 3
  /\ valid(batch[1]) /\ ~valid(batch[2]) /\ valid(batch[3])
  /\ batch[2] # NilKey
  /\ bres.err.errs = <<NoError, ErrInvalidKey, NoError>>

\* C24: whenever DecodeKey or protoToKey returns a nil error, the key it
\* returns is non-nil and valid; a reference without path elements is never a
\* successful decode with no key.
C24_DecodedKeyPresent ==
  (kres.op \in {"DecodeKey", "protoToKey"} /\ kres.err = NoError) =>
    (kres.key # NilKey /\ valid(kres.key))

\* C25: after any sequence of builder calls that starts from NewQueryOptions,
\* endCursor is unset in every QueryOptions value, and toProto of the value
\* does not write EndCompiledCursor.
C25_EndCursorNeverSet ==
  \A i \in 1..Len(options) :
    /\ options[i].endCursor = NilCursor
    /\ QueryOptions_toProto(options[i]).dst.EndCompiledCursor = Unset

\* Cursor was called with a cursor, another builder was called on its result,
\* and toProto of that value writes CompiledCursor.
C25_Witness ==
  \E i, j \in 1..Len(optReturned) :
    /\ optReturned[i].call = "Cursor"
    /\ optReturned[i].arg # NilCursor
    /\ optReturned[j].from = i
    /\ optReturned[j].call # "Cursor"
    /\ QueryOptions_toProto(options[j]).dst.CompiledCursor # Unset

\* C26: with one request after the other, once a Save of a session ID has
\* returned, a New for that ID returns the Values of the most recent Save:
\* nothing of an earlier, longer save is left in the file, and a Save with
\* empty Values does not leave the earlier values readable.
C26_NewReadsLastSave ==
  \A p \in requests :
    (sres[p].op = "New" /\ lastSaved[sres[p].ID] # NoSave) =>
      sres[p].Values = lastSaved[sres[p].ID]

\* The request is in writeFile between opening and closing the session file.
WriterInFile(p) == spc[p] \in {"Write", "Close"}

\* The request is in readFile with the session file open.
ReaderInFile(p) == spc[p] \in {"Read", "DecodeMulti"}

\* C27: with several requests at a time, at most one writeFile is between
\* opening and closing a session file, and no readFile has a session file open
\* while a writeFile of that file is between opening and closing it.
C27_WritersAndReadersExcluded ==
  \A p, q \in requests :
    p # q =>
      /\ ~(WriterInFile(p) /\ WriterInFile(q))
      /\ ~(/\ ReaderInFile(p)
           /\ WriterInFile(q)
           /\ slocal[p].session.ID = slocal[q].session.ID)

====
